---------------------------- MODULE Spec2Model ----------------------------
(***************************************************************************)
(* A model of the ActionAgent transcript-to-work-item pipeline:            *)
(*   - withRetry / isRetryableError / calculateBackoffDelay                *)
(*     (src/src/utils/errorHandling.ts)                                    *)
(*   - splitIntoChunks, deduplicateItems, processLargeTranscript           *)
(*     (the AI service, src/unnamed/part_003)                              *)
(*   - createWorkItems (the DevOps service, src/unnamed/part_002)          *)
(* Each subsystem has its own specification; the variables of the other    *)
(* subsystems stay at their idle values.                                   *)
(***************************************************************************)
EXTENDS Integers, Sequences, FiniteSets, TLC

VARIABLES
  \* ---- withRetry (errorHandling.ts)
  cfg,        \* [enableRetries, maxAttempts, baseDelayMs]: features + RetryConfig
  rpc,        \* position in withRetry
  attempt,    \* the loop counter `attempt`
  outcomes,   \* history: the outcome of every invocation of `operation`
  sleeps,     \* history: the argument of every sleep(delay) call
  lastError,  \* the local `lastError`
  settled,    \* how withRetry's promise settled
  \* ---- splitIntoChunks (AI service)
  text,       \* the argument `text`, a sequence of characters
  maxLength,  \* the argument `maxLength`
  chunks,     \* the returned array
  cpc,        \* "start" before the call, "done" after it
  \* ---- deduplicateItems in processLargeTranscript (AI service)
  chunkResults,  \* parsed.actionItems of each chunk, in chunk order
  allItems,      \* the local `allItems`
  dedupedItems,  \* the local `dedupedItems`
  di,            \* the number of chunks accumulated so far (the loop index)
  dpc,           \* "accumulating" during the loop, "done" after deduplication
  \* ---- createWorkItems (DevOps service)
  nTasks,     \* tasks.length; the tasks are tasks[1..nTasks]
  bi,         \* the loop variable `i`
  callState,  \* per task: the state of its createWorkItem promise
  results,    \* the local `results`
  errors,     \* the local `errors`
  delays,     \* history: the inter-batch delays that have elapsed
  bpc,        \* position in createWorkItems
  \* ---- extractActionItems / processLargeTranscript (AI service)
  nChunks,    \* chunks.length; 0 for a transcript that is not chunked
  ei,         \* the loop variable `i`
  events,     \* history: backend requests issued and how each ended
  eAllItems,  \* the local `allItems` of the running attempt
  eSummaries, \* the local `summaries` of the running attempt
  epc,        \* position in the operation handed to withRetry
  \* ---- parseAndValidateResponse (AI service)
  response,       \* the response text handed to parseAndValidateResponse
  parsedResponse, \* what it returned or threw
  ppc,            \* position: "idle", "start" or "done"
  \* ---- identity resolution
  now,             \* Date.now()
  ticks,           \* how many times the clock has advanced
  userCache,       \* Map: lower-cased name -> users
  cacheTimestamps, \* Map: lower-cased name -> time of the entry
  storedAt,        \* history: time of the last userCache.set of each key, -1 if none
  names,           \* the argument of resolveUsers
  uniqueNames,     \* its local of that name
  rbi,             \* the loop variable `i` of resolveUsers
  lookups,         \* the resolveUser call of each unique name
  resolved,        \* the local `results` of resolveUsers
  ipc,             \* position in resolveUsers
  callsMade,       \* how many times resolveUsers has been called
  \* ---- createWorkItem: identity resolution and the patch document (DevOps service)
  assignees,  \* task.assignedTo of each item of the group
  resolveIdentities,  \* the argument `resolveIdentities`
  triageUser,  \* config.azureDevOps.triageUser
  apc,  \* per item: position in createWorkItem
  patches, \* per item: the patch document handed to the backend
  \* ---- withErrorHandling (errorHandling.ts)
  enableRetry,  \* options.enableRetry
  handled, \* how withErrorHandling's promise settled
  \* ---- parseVttToText (Graph service)
  vttContent,  \* the argument `vttContent`
  vttText,  \* parseVttToText(vttContent)
  vttAgain,  \* parseVttToText of that result
  vpc, \* "start", "once" after one call, "twice" after the second
  \* ---- parseDeadline / buildPatchDocument (DevOps service)
  deadline,  \* task.deadline
  clock,  \* new Date(): the current local date and time
  tzMinutes,  \* the offset of local time from UTC, in minutes
  parsedDate,  \* what parseDeadline returned
  targetDate,  \* the TargetDate operation of the patch document
  tpc, \* "start" before buildPatchDocument, "built" after it
  \* ---- TelemetryService.trackMetric (telemetry.ts)
  metrics,  \* TelemetryService.metrics, the in-memory store
  enableTelemetry,  \* config.features.enableTelemetry
  tracked  \* every metric handed to trackMetric, in call order (history)

retryVars == <<cfg, rpc, attempt, outcomes, sleeps, lastError, settled>>

chunkVars == <<text, maxLength, chunks, cpc>>

dedupVars == <<chunkResults, allItems, dedupedItems, di, dpc>>

batchVars == <<nTasks, bi, callState, results, errors, delays, bpc>>

extractVars == <<nChunks, ei, events, eAllItems, eSummaries, epc>>

parseVars == <<response, parsedResponse, ppc>>

identityVars ==
  <<now, ticks, userCache, cacheTimestamps, storedAt, names, uniqueNames, rbi,
    lookups, resolved, ipc, callsMade>>

assignVars == <<assignees, resolveIdentities, triageUser, apc, patches>>

handlingVars == <<enableRetry, handled>>

vttVars == <<vttContent, vttText, vttAgain, vpc>>

deadlineVars == <<deadline, clock, tzMinutes, parsedDate, targetDate, tpc>>

metricVars == <<metrics, enableTelemetry, tracked>>

vars ==
  <<retryVars, chunkVars, dedupVars, batchVars, extractVars, parseVars,
    identityVars, assignVars, handlingVars, vttVars, deadlineVars,
    metricVars>>

None == [cls |-> "none"]

(* The state of each subsystem before it is entered *)

RetryIdle ==
  /\ rpc = "start"
  /\ attempt = 0
  /\ outcomes = <<>>
  /\ sleeps = <<>>
  /\ lastError = None
  /\ settled = None

ChunkIdle ==
  /\ text = <<>>
  /\ maxLength = 0
  /\ chunks = <<>>
  /\ cpc = "idle"

DedupIdle ==
  /\ chunkResults = <<>>
  /\ allItems = <<>>
  /\ dedupedItems = <<>>
  /\ di = 0
  /\ dpc = "idle"

BatchIdle ==
  /\ nTasks = 0
  /\ bi = 0
  /\ callState = <<>>
  /\ results = <<>>
  /\ errors = <<>>
  /\ delays = <<>>
  /\ bpc = "idle"

ExtractIdle ==
  /\ nChunks = 0
  /\ ei = 0
  /\ events = <<>>
  /\ eAllItems = <<>>
  /\ eSummaries = <<>>
  /\ epc = "idle"

ParseIdle ==
  /\ response = None
  /\ parsedResponse = None
  /\ ppc = "idle"

IdentityIdle ==
  /\ now = 0
  /\ ticks = 0
  /\ userCache = <<>>
  /\ cacheTimestamps = <<>>
  /\ storedAt = <<>>
  /\ names = <<>>
  /\ uniqueNames = <<>>
  /\ rbi = 0
  /\ lookups = <<>>
  /\ resolved = <<>>
  /\ ipc = "idle"
  /\ callsMade = 0

AssignIdle ==
  /\ assignees = <<>>
  /\ resolveIdentities = FALSE
  /\ triageUser = <<>>
  /\ apc = <<>>
  /\ patches = <<>>

HandlingIdle ==
  /\ enableRetry = FALSE
  /\ handled = None

VttIdle ==
  /\ vttContent = <<>>
  /\ vttText = <<>>
  /\ vttAgain = <<>>
  /\ vpc = "idle"

DeadlineIdle ==
  /\ deadline = <<>>
  /\ clock = None
  /\ tzMinutes = 0
  /\ parsedDate = None
  /\ targetDate = None
  /\ tpc = "idle"

MetricsIdle ==
  /\ metrics = <<>>
  /\ enableTelemetry = TRUE
  /\ tracked = <<>>

-----------------------------------------------------------------------------
(* Bounds of the model *)

\* largest cfg.maxAttempts explored
MaxAttemptsBound == 3

\* Math.random() is drawn from { k / RandSteps : k \in 0..RandSteps-1 }
RandSteps == 2

\* longest text handed to splitIntoChunks
MaxTextLen == 6

\* largest maxLength handed to splitIntoChunks
MaxThreshold == 4

\* largest number of items the chunks of one transcript yield together
MaxItems == 3

\* largest number of tasks handed to createWorkItems
MaxTasks == 11

\* largest number of chunks of a transcript
MaxChunks == 3

\* largest number of elements of a response array
MaxRecords == 2

\* largest number of names handed to resolveUsers
MaxNames == 2

\* largest number of users a directory query returns
MaxCandidates == 2

\* how many times the clock advances
MaxTicks == 2

\* how many times resolveUsers is called
MaxCalls == 2

-----------------------------------------------------------------------------
(* errorHandling.ts *)

\* defaultRetryConfig.maxDelayMs
maxDelayMs == 30000

\* defaultRetryConfig.jitterFactor is 0.2 = 1 / JitterDen
JitterDen == 5

\* the correlationId of the context handed to withRetry
CtxId == "ctx"

\* values of cfg.baseDelayMs explored (config.features.retryDelayMs is read
\* from RETRY_DELAY_MS, default 1000; the tests pass 10)
BaseDelays == {0, 1, 2, 10, 1000, 30000}

Configs ==
  [enableRetries : BOOLEAN, maxAttempts : 0..MaxAttemptsBound, baseDelayMs : BaseDelays]

\* config.features with no environment variable set
DefaultConfig == [enableRetries |-> TRUE, maxAttempts |-> 3, baseDelayMs |-> 1000]

\* What an operation can reject with.  An ActionAgentError carries isRetryable
\* and the correlationId of the context it was built with; a plain Error is
\* represented by what isRetryableError reads from its message: whether it
\* contains one of the transient patterns, and the status code matched by
\* /status[:\s]+(\d{3})/ (0 when the pattern does not match); NonError is a
\* thrown value that is not an Error instance.
ActionAgentError(msg, ctxId, retryable, cause) ==
  [cls |-> "ActionAgentError", msg |-> msg, correlationId |-> ctxId,
   isRetryable |-> retryable, statusCode |-> 0, cause |-> cause]

\* the same error built with options.statusCode (0 above: undefined)
WithStatusCode(error, statusCode) == [error EXCEPT !.statusCode = statusCode]

PlainError(msg, transient, status) ==
  [cls |-> "Error", msg |-> msg, transient |-> transient, status |-> status]

NonError(msg) == [cls |-> "NonError", msg |-> msg]

\* the error parseAndValidateResponse throws for an unparseable response
\* (isRetryable defaults to false)
ParseError ==
  ActionAgentError("Failed to parse AI response as JSON", CtxId, FALSE,
                   PlainError("SyntaxError", FALSE, 0))

Errors ==
  { ParseError,
    ActionAgentError("upstream busy", "other", TRUE, None),
    ActionAgentError("no ID returned", "other", FALSE, None),
    PlainError("Request timeout", TRUE, 0),
    PlainError("status: 503", FALSE, 503),
    PlainError("status: 404", FALSE, 404),
    PlainError("Invalid configuration", FALSE, 0),
    NonError("rejected with a string") }

retryableStatusCodes == {408, 429, 500, 502, 503, 504}

\* mutant: every ActionAgentError is taken to be retryable
isRetryableError_AnyAgentError(error) ==
  IF error.cls = "ActionAgentError" THEN TRUE
  ELSE IF error.cls = "Error"
       THEN error.transient \/ error.status \in {408, 429, 500, 502, 503, 504}
  ELSE FALSE

isRetryableError(error) ==
  IF error.cls = "ActionAgentError" THEN error.isRetryable
  ELSE IF error.cls = "Error"
       THEN IF error.transient THEN TRUE
            ELSE IF error.status # 0 THEN error.status \in retryableStatusCodes
            ELSE FALSE
  ELSE FALSE

Min(a, b) == IF a <= b THEN a ELSE b

Pow2(n) == IF n <= 0 THEN 1 ELSE 2 ^ n

\* Math.floor(capped + capped * jitterFactor * (Math.random() - 0.5)) with
\* Math.random() = k / RandSteps:
\*   capped * (1 + (1/JitterDen) * (k/RandSteps - 1/2))
\*     = capped * (2*JitterDen*RandSteps + 2*k - RandSteps) / (2*JitterDen*RandSteps)
\* mutant: the delay does not grow with the attempt number
calculateBackoffDelay_NoExponent(att, c, k) ==
  (Min(c.baseDelayMs, 30000) * (2 * JitterDen * RandSteps + 2 * k - RandSteps))
    \div (2 * JitterDen * RandSteps)

calculateBackoffDelay(att, c, k) ==
  LET exponentialDelay == c.baseDelayMs * Pow2(att - 1)
      cappedDelay == Min(exponentialDelay, maxDelayMs)
  IN  (cappedDelay * (2 * JitterDen * RandSteps + 2 * k - RandSteps))
        \div (2 * JitterDen * RandSteps)

\* mutant: off by one, a retry is scheduled after the last attempt too
shouldRetry_OffByOne(att, c, error) ==
  att <= c.maxAttempts /\ error.cls # "value" /\ error.cls # "NonError"
    /\ (IF error.cls = "ActionAgentError" THEN error.isRetryable
        ELSE error.transient \/ error.status \in {408, 429, 500, 502, 503, 504})

shouldRetry(att, c, error) == att < c.maxAttempts /\ isRetryableError(error)

\* lastError = error instanceof Error ? error : new Error(String(error))
AsError(error) ==
  IF error.cls = "NonError" THEN PlainError(error.msg, FALSE, 0) ELSE error

\* mutant: the terminal error is built with a context of its own
TerminalError_NewContext(last) ==
  ActionAgentError(IF last = None THEN "Operation failed after retries" ELSE last.msg,
                   "new", FALSE, last)

\* throw new ActionAgentError(lastError?.message || "...", context,
\*                            { isRetryable: false, cause: lastError })
TerminalError(last) ==
  ActionAgentError(IF last = None THEN "Operation failed after retries" ELSE last.msg,
                   CtxId, FALSE, last)

\* the head of `for (attempt = 1; attempt <= cfg.maxAttempts; attempt++)`:
\* either the operation is invoked once more or the loop is left and the
\* terminal error is thrown
LoopHead(att, last) ==
  IF att <= cfg.maxAttempts
  THEN /\ rpc' = "running"
       /\ settled' = settled
  ELSE /\ rpc' = "thrown"
       /\ settled' = TerminalError(last)

\* withRetry is entered: with retries disabled the operation is invoked and
\* its promise returned as is
withRetryEnter ==
  /\ rpc = "start"
  /\ IF ~cfg.enableRetries
     THEN /\ rpc' = "passthrough"
          /\ UNCHANGED <<attempt, settled>>
     ELSE /\ attempt' = 1
          /\ LoopHead(1, None)
  /\ UNCHANGED <<cfg, outcomes, sleeps, lastError>>

OperationInFlight == rpc \in {"running", "passthrough"}

\* the operation's promise is fulfilled
withRetryOnReturn(value) ==
  /\ OperationInFlight
  /\ outcomes' = Append(outcomes, value)
  /\ rpc' = "returned"
  /\ settled' = value
  /\ UNCHANGED <<cfg, attempt, sleeps, lastError>>

\* the operation's promise is rejected with `error`
withRetryOnThrow(error) ==
  /\ OperationInFlight
  /\ outcomes' = Append(outcomes, error)
  /\ IF rpc = "passthrough"
     THEN /\ rpc' = "thrown"
          /\ settled' = error
          /\ UNCHANGED <<sleeps, lastError>>
     ELSE /\ lastError' = AsError(error)
          /\ IF shouldRetry(attempt, cfg, error)
             THEN /\ \E k \in 0..(RandSteps - 1) :
                       sleeps' = Append(sleeps, calculateBackoffDelay(attempt, cfg, k))
                  /\ rpc' = "sleeping"
                  /\ UNCHANGED settled
             ELSE /\ rpc' = "thrown"
                  /\ settled' = TerminalError(AsError(error))
                  /\ UNCHANGED sleeps
  /\ UNCHANGED <<cfg, attempt>>

\* sleep(delay) resolves: attempt++ and back to the loop head
withRetryWake ==
  /\ rpc = "sleeping"
  /\ attempt' = attempt + 1
  /\ LoopHead(attempt + 1, lastError)
  /\ UNCHANGED <<cfg, outcomes, sleeps, lastError>>

Success == [cls |-> "value"]

\* mutant: the catch block rethrows whatever it caught
withErrorHandlingOnThrow_Rethrow(error) == error

\* mutant: the catch block wraps every error, an ActionAgentError too
withErrorHandlingOnThrow_AlwaysWrap(error) ==
  [cls |-> "ActionAgentError", msg |-> error.msg, correlationId |-> CtxId,
   isRetryable |-> FALSE, statusCode |-> 0, cause |-> error]

\* the catch block of withErrorHandling: an ActionAgentError is rethrown as it
\* is, anything else is wrapped in one built with the context (the cause is
\* kept when it is an Error)
withErrorHandlingOnThrow(error) ==
  IF error.cls = "ActionAgentError" THEN error
  ELSE ActionAgentError(error.msg, CtxId, FALSE,
                        IF error.cls = "Error" THEN error ELSE None)

\* withErrorHandling settles when what it awaits has settled: the value is
\* returned, the error goes through the catch block
handlingSettles ==
  handled' = IF rpc' = "returned" THEN settled'
             ELSE IF rpc' = "thrown" THEN withErrorHandlingOnThrow(settled')
             ELSE handled

\* withErrorHandling(operation, context, { enableRetry }): withRetry is
\* entered, or the operation is invoked and awaited directly (position
\* "passthrough", as in withRetry with retries disabled)
withErrorHandlingEnter ==
  /\ rpc = "start"
  /\ IF enableRetry
     THEN withRetryEnter
     ELSE /\ rpc' = "passthrough"
          /\ UNCHANGED <<cfg, attempt, outcomes, sleeps, lastError, settled>>
  /\ handlingSettles
  /\ UNCHANGED enableRetry

-----------------------------------------------------------------------------
(* splitIntoChunks (AI service).  A string is a sequence of characters.    *)

\* the characters texts are made of: a letter, an end-of-sentence mark, the
\* space, and a whitespace character other than the space
Chars == {"a", ".", " ", "\n"}

\* \s
IsWhitespace(c) == c \in {" ", "\n", "\t", "\r"}

\* [.!?]
IsSentenceEnd(c) == c \in {".", "!", "?"}

RECURSIVE SkipWhitespace(_, _)
\* the index after the run of whitespace that starts at i (the greedy \s+)
SkipWhitespace(str, i) ==
  IF i <= Len(str) /\ IsWhitespace(str[i]) THEN SkipWhitespace(str, i + 1) ELSE i

RECURSIVE SplitSentencesFrom(_, _, _, _)
SplitSentencesFrom(str, i, cur, acc) ==
  IF i > Len(str) THEN Append(acc, cur)
  ELSE IF IsWhitespace(str[i]) /\ i > 1 /\ IsSentenceEnd(str[i - 1])
       THEN SplitSentencesFrom(str, SkipWhitespace(str, i), <<>>, Append(acc, cur))
       ELSE SplitSentencesFrom(str, i + 1, Append(cur, str[i]), acc)

\* text.split(/(?<=[.!?])\s+/): the text is cut at every run of whitespace
\* that follows an end-of-sentence mark; the run is dropped
splitSentences(str) == SplitSentencesFrom(str, 1, <<>>, <<>>)

RECURSIVE SplitOnSpaceFrom(_, _, _, _)
SplitOnSpaceFrom(str, i, cur, acc) ==
  IF i > Len(str) THEN Append(acc, cur)
  ELSE IF str[i] = " "
       THEN SplitOnSpaceFrom(str, i + 1, <<>>, Append(acc, cur))
       ELSE SplitOnSpaceFrom(str, i + 1, Append(cur, str[i]), acc)

\* sentence.split(" ")
splitWords(str) == SplitOnSpaceFrom(str, 1, <<>>, <<>>)

RECURSIVE TrimStart(_)
TrimStart(str) ==
  IF str # <<>> /\ IsWhitespace(Head(str)) THEN TrimStart(Tail(str)) ELSE str

RECURSIVE TrimEnd(_)
TrimEnd(str) ==
  IF str # <<>> /\ IsWhitespace(str[Len(str)])
  THEN TrimEnd(SubSeq(str, 1, Len(str) - 1))
  ELSE str

\* mutant: the chunk is pushed without being trimmed
trim_Identity(str) == str

\* String.prototype.trim
trim(str) == TrimEnd(TrimStart(str))

\* mutant: the separating space is forgotten
appendWithSpace_NoSpace(chunk, piece) == chunk \o piece

\* currentChunk += sentence + " "   and   wordChunk += word + " "
appendWithSpace(chunk, piece) == chunk \o piece \o <<" ">>

\* one iteration of `for (const word of words)`; st = [chunks, wordChunk]
wordStep(st, word, maxLen) ==
  LET flush == Len(st.wordChunk) + Len(word) > maxLen
      pushed == IF flush THEN Append(st.chunks, trim(st.wordChunk)) ELSE st.chunks
      wc == IF flush THEN <<>> ELSE st.wordChunk
  IN  [chunks |-> pushed, wordChunk |-> appendWithSpace(wc, word)]

RECURSIVE wordLoop(_, _, _)
wordLoop(st, words, maxLen) ==
  IF words = <<>> THEN st
  ELSE wordLoop(wordStep(st, Head(words), maxLen), Tail(words), maxLen)

\* one iteration of `for (const sentence of sentences)`;
\* st = [chunks, currentChunk]
sentenceStep(st, sentence, maxLen) ==
  IF Len(st.currentChunk) + Len(sentence) > maxLen
  THEN LET pushed == IF Len(st.currentChunk) > 0
                     THEN Append(st.chunks, trim(st.currentChunk))
                     ELSE st.chunks
       IN  IF Len(sentence) > maxLen
           THEN LET w == wordLoop([chunks |-> pushed, wordChunk |-> <<>>],
                                  splitWords(sentence), maxLen)
                IN  [chunks |-> w.chunks,
                     currentChunk |-> IF trim(w.wordChunk) # <<>> THEN w.wordChunk ELSE <<>>]
           ELSE [chunks |-> pushed, currentChunk |-> appendWithSpace(<<>>, sentence)]
  ELSE [chunks |-> st.chunks, currentChunk |-> appendWithSpace(st.currentChunk, sentence)]

RECURSIVE sentenceLoop(_, _, _)
sentenceLoop(st, sentences, maxLen) ==
  IF sentences = <<>> THEN st
  ELSE sentenceLoop(sentenceStep(st, Head(sentences), maxLen), Tail(sentences), maxLen)

splitIntoChunks(str, maxLen) ==
  LET st == sentenceLoop([chunks |-> <<>>, currentChunk |-> <<>>],
                         splitSentences(str), maxLen)
  IN  IF trim(st.currentChunk) # <<>>
      THEN Append(st.chunks, trim(st.currentChunk))
      ELSE st.chunks

-----------------------------------------------------------------------------
(* SpecChunk: splitIntoChunks applied to every text of at most MaxTextLen   *)
(* characters and every threshold 1..MaxThreshold.                          *)

RECURSIVE StringsUpTo(_)
StringsUpTo(n) ==
  IF n = 0 THEN {<<>>}
  ELSE LET shorter == StringsUpTo(n - 1)
       IN  shorter \cup {Append(str, c) : str \in {x \in shorter : Len(x) = n - 1}, c \in Chars}

ChunkInit ==
  /\ text \in StringsUpTo(MaxTextLen)
  /\ maxLength \in 1..MaxThreshold
  /\ chunks = <<>>
  /\ cpc = "start"
  /\ cfg = DefaultConfig
  /\ RetryIdle
  /\ DedupIdle
  /\ BatchIdle
  /\ ExtractIdle
  /\ ParseIdle
  /\ IdentityIdle
  /\ AssignIdle
  /\ HandlingIdle
  /\ VttIdle
  /\ DeadlineIdle
  /\ MetricsIdle

SplitText ==
  /\ cpc = "start"
  /\ chunks' = splitIntoChunks(text, maxLength)
  /\ cpc' = "done"
  /\ UNCHANGED <<text, maxLength, retryVars, dedupVars, batchVars, extractVars, parseVars, identityVars, assignVars, handlingVars, vttVars, deadlineVars, metricVars>>

ChunkNext == SplitText

SpecChunk == ChunkInit /\ [][ChunkNext]_vars

-----------------------------------------------------------------------------
(* Claims about splitIntoChunks, checked under SpecChunk *)

RECURSIVE NonEmpty(_)
NonEmpty(seqs) ==
  IF seqs = <<>> THEN <<>>
  ELSE (IF Head(seqs) = <<>> THEN <<>> ELSE <<Head(seqs)>>) \o NonEmpty(Tail(seqs))

RECURSIVE SplitOnWhitespaceFrom(_, _, _, _)
SplitOnWhitespaceFrom(str, i, cur, acc) ==
  IF i > Len(str) THEN Append(acc, cur)
  ELSE IF IsWhitespace(str[i])
       THEN SplitOnWhitespaceFrom(str, i + 1, <<>>, Append(acc, cur))
       ELSE SplitOnWhitespaceFrom(str, i + 1, Append(cur, str[i]), acc)

\* the words of a string: its maximal runs of non-whitespace characters
Words(str) == NonEmpty(SplitOnWhitespaceFrom(str, 1, <<>>, <<>>))

\* the maximal runs of characters other than the space (they may contain
\* other whitespace)
SpaceTokens(str) == NonEmpty(splitWords(str))

RECURSIVE WordsOfAll(_)
WordsOfAll(cs) == IF cs = <<>> THEN <<>> ELSE Words(Head(cs)) \o WordsOfAll(Tail(cs))

\* C7 as stated: every chunk has length <= maxLength, except a chunk that
\* consists of a single word which is itself longer than maxLength.
C7_ChunkWithinThreshold_Words ==
  cpc = "done" =>
    \A i \in 1..Len(chunks) :
      \/ Len(chunks[i]) <= maxLength
      \/ Len(Words(chunks[i])) = 1

\* C7 amended: every chunk has length <= maxLength, except a chunk that is a
\* single run of non-space characters (which may contain tabs or newlines)
\* longer than maxLength.
C7_ChunkWithinThreshold ==
  cpc = "done" =>
    \A i \in 1..Len(chunks) :
      \/ Len(chunks[i]) <= maxLength
      \/ SpaceTokens(chunks[i]) = <<chunks[i]>>

\* C7 witness: a sentence longer than the threshold is split by words, one of
\* which is longer than the threshold
C7_Witness ==
  /\ cpc = "done"
  /\ text = <<"a", " ", "a", "a", "a">>
  /\ maxLength = 2
  /\ chunks = << <<"a">>, <<"a", "a", "a">> >>

\* C8: the sequence of words of the chunks, in order, is the sequence of words
\* of the input: no word is lost, duplicated, reordered or split.
C8_ChunksReproduceWords ==
  cpc = "done" => WordsOfAll(chunks) = Words(text)

\* C8 witness: a text of two sentences and three words cut into two chunks
C8_Witness ==
  /\ cpc = "done"
  /\ text = <<"a", ".", " ", "a", "\n", "a">>
  /\ maxLength = 3
  /\ Len(chunks) >= 2
  /\ WordsOfAll(chunks) = << <<"a", ".">>, <<"a">>, <<"a">> >>

\* C29: splitIntoChunks never returns an empty chunk: for every text and
\* threshold, each returned chunk contains at least one word (also when a
\* word of an over-long sentence is itself longer than the threshold), so
\* no extraction request is issued for empty content.
C29_NoEmptyChunk ==
  cpc = "done" =>
    \A i \in 1..Len(chunks) : Len(Words(chunks[i])) >= 1

\* the chunks are never empty when no sentence is longer than the threshold
C29_NoEmptyChunkOfShortSentences ==
  (/\ cpc = "done"
   /\ \A k \in 1..Len(splitSentences(text)) : Len(splitSentences(text)[k]) <= maxLength)
    => \A i \in 1..Len(chunks) : Len(Words(chunks[i])) >= 1

-----------------------------------------------------------------------------
(* deduplicateItems (AI service).  An item is [title, description]; the    *)
(* other fields of an ActionItem are not read by deduplicateItems.         *)

UpperCaseLetters ==
  <<"A", "B", "C", "D", "E", "F", "G", "H", "I", "J", "K", "L", "M",
    "N", "O", "P", "Q", "R", "S", "T", "U", "V", "W", "X", "Y", "Z">>

LowerCaseLetters ==
  <<"a", "b", "c", "d", "e", "f", "g", "h", "i", "j", "k", "l", "m",
    "n", "o", "p", "q", "r", "s", "t", "u", "v", "w", "x", "y", "z">>

Digits == {"0", "1", "2", "3", "4", "5", "6", "7", "8", "9"}

UpperCaseSet == {UpperCaseLetters[i] : i \in 1..26}

LowerCaseSet == {LowerCaseLetters[i] : i \in 1..26}

\* String.prototype.toLowerCase, one character
toLowerCaseChar(c) ==
  IF c \in UpperCaseSet
  THEN LowerCaseLetters[CHOOSE i \in 1..26 : UpperCaseLetters[i] = c]
  ELSE c

toLowerCase(str) == [i \in 1..Len(str) |-> toLowerCaseChar(str[i])]

\* [a-z0-9]
IsLowerAlnum(c) == c \in LowerCaseSet \/ c \in Digits

\* mutant: the title is not lower-cased before the non-alphanumerics go
titleKey_CaseSensitive(title) == SelectSeq(title, IsLowerAlnum)

\* item.title.toLowerCase().replace(/[^a-z0-9]/g, "")
titleKey(title) == SelectSeq(toLowerCase(title), IsLowerAlnum)

\* (item.description?.length || 0)
descriptionLength(item) == Len(item.description)

\* mutant: on a tie the later item replaces the earlier one
replaces_OnTie(item, existing) == descriptionLength(item) >= descriptionLength(existing)

\* the test under "Keep the one with more info"
replaces(item, existing) == descriptionLength(item) > descriptionLength(existing)

\* one iteration of `for (const item of items)`; seen is the Map, kept as the
\* sequence of its [key, item] entries in insertion order (Map.set on a key
\* already present keeps the entry's position)
dedupStep(seen, item) ==
  LET key == titleKey(item.title)
      at == {i \in 1..Len(seen) : seen[i].key = key}
  IN  IF at = {}
      THEN Append(seen, [key |-> key, item |-> item])
      ELSE LET i == CHOOSE j \in at : TRUE
           IN  IF replaces(item, seen[i].item)
               THEN [seen EXCEPT ![i] = [key |-> key, item |-> item]]
               ELSE seen

RECURSIVE dedupLoop(_, _)
dedupLoop(seen, items) ==
  IF items = <<>> THEN seen ELSE dedupLoop(dedupStep(seen, Head(items)), Tail(items))

\* mutant: the survivors are returned latest key first
deduplicateItems_Reversed(items) ==
  LET seen == dedupLoop(<<>>, items)
  IN  [i \in 1..Len(seen) |-> seen[Len(seen) + 1 - i].item]

\* Array.from(seen.values())
deduplicateItems(items) ==
  LET seen == dedupLoop(<<>>, items)
  IN  [i \in 1..Len(seen) |-> seen[i].item]

-----------------------------------------------------------------------------
(* SpecDedup: the accumulation and deduplication of processLargeTranscript  *)
(* over two chunks that yield at most MaxItems items together.              *)

FixLoginBug == <<"F", "i", "x", " ", "l", "o", "g", "i", "n", " ", "b", "u", "g">>

FixTheLoginBug == <<"f", "i", "x", " ", "t", "h", "e", " ", "l", "o", "g", "i", "n", " ", "b", "u", "g", "!">>

FixLoginBugBang == <<"f", "i", "x", " ", "l", "o", "g", "i", "n", " ", "b", "u", "g", "!">>

Titles == {FixLoginBug, FixTheLoginBug, FixLoginBugBang}

Descriptions == {<<>>, <<"x">>, <<"x", "y">>}

Items == [title : Titles, description : Descriptions]

RECURSIVE ItemLists(_)
\* the item lists of length n
ItemLists(n) ==
  IF n = 0 THEN {<<>>}
  ELSE {Append(l, it) : l \in ItemLists(n - 1), it \in Items}

DedupInit ==
  /\ \E n1 \in 0..MaxItems : \E n2 \in 0..(MaxItems - n1) :
       chunkResults \in {<<l1, l2>> : l1 \in ItemLists(n1), l2 \in ItemLists(n2)}
  /\ allItems = <<>>
  /\ dedupedItems = <<>>
  /\ di = 0
  /\ dpc = "accumulating"
  /\ cfg = DefaultConfig
  /\ RetryIdle
  /\ ChunkIdle
  /\ BatchIdle
  /\ ExtractIdle
  /\ ParseIdle
  /\ IdentityIdle
  /\ AssignIdle
  /\ HandlingIdle
  /\ VttIdle
  /\ DeadlineIdle
  /\ MetricsIdle

\* allItems.push(...parsed.actionItems), for the next chunk
Accumulate ==
  /\ dpc = "accumulating"
  /\ di < Len(chunkResults)
  /\ allItems' = allItems \o chunkResults[di + 1]
  /\ di' = di + 1
  /\ UNCHANGED <<chunkResults, dedupedItems, dpc, retryVars, chunkVars, batchVars, extractVars, parseVars, identityVars, assignVars, handlingVars, vttVars, deadlineVars, metricVars>>

\* const dedupedItems = deduplicateItems(allItems)
Deduplicate ==
  /\ dpc = "accumulating"
  /\ di = Len(chunkResults)
  /\ dedupedItems' = deduplicateItems(allItems)
  /\ dpc' = "done"
  /\ UNCHANGED <<chunkResults, allItems, di, retryVars, chunkVars, batchVars, extractVars, parseVars, identityVars, assignVars, handlingVars, vttVars, deadlineVars, metricVars>>

DedupNext == Accumulate \/ Deduplicate

SpecDedup == DedupInit /\ [][DedupNext]_vars

-----------------------------------------------------------------------------
(* Claims about deduplicateItems, checked under SpecDedup *)

TitlesOf(items) == {items[i].title : i \in 1..Len(items)}

\* the items of the merged result whose title is one of `titles`
Survivors(titles) == {i \in 1..Len(dedupedItems) : dedupedItems[i].title \in titles}

YieldedByDifferentChunks(t1, t2) ==
  \/ t1 \in TitlesOf(chunkResults[1]) /\ t2 \in TitlesOf(chunkResults[2])
  \/ t2 \in TitlesOf(chunkResults[1]) /\ t1 \in TitlesOf(chunkResults[2])

\* C9 as stated: when one chunk yields an item titled "Fix login bug" and the
\* other an item titled "fix the login bug!", the merged result contains a
\* single item for them.
C9_FixTheLoginBugCollides ==
  (dpc = "done" /\ YieldedByDifferentChunks(FixLoginBug, FixTheLoginBug))
    => Cardinality(Survivors({FixLoginBug, FixTheLoginBug})) = 1

\* C9 amended: when one chunk yields an item titled "Fix login bug" and the
\* other an item titled "fix login bug!" (the titles differ in letter case and
\* punctuation only) the merged result contains a single item for them; an
\* item titled "fix the login bug!" has another key and is kept beside them.
C9_SameKeyCollides ==
  dpc = "done" =>
    /\ YieldedByDifferentChunks(FixLoginBug, FixLoginBugBang)
         => Cardinality(Survivors({FixLoginBug, FixLoginBugBang})) = 1
    /\ YieldedByDifferentChunks(FixLoginBug, FixTheLoginBug)
         => /\ Cardinality(Survivors({FixLoginBug, FixLoginBugBang})) = 1
            /\ Cardinality(Survivors({FixTheLoginBug})) = 1

\* C9 witness: the two chunks yield "Fix login bug" and "fix login bug!"
C9_Witness ==
  /\ dpc = "done"
  /\ Len(chunkResults[1]) = 1 /\ chunkResults[1][1].title = FixLoginBug
  /\ Len(chunkResults[2]) = 1 /\ chunkResults[2][1].title = FixLoginBugBang
  /\ Len(dedupedItems) = 1

\* the normalized key of the claim: the title lower-cased, non-alphanumerics
\* removed
KeyOf(item) == SelectSeq(toLowerCase(item.title), IsLowerAlnum)

\* with keys[i] the key of allItems[i]: the index of the item that must
\* survive for the key of allItems[i], the earliest among those with the
\* longest description
SurvivorIndex(keys, i) ==
  CHOOSE j \in 1..Len(allItems) :
    /\ keys[j] = keys[i]
    /\ \A k \in 1..Len(allItems) :
         keys[k] = keys[i] =>
           \/ Len(allItems[k].description) < Len(allItems[j].description)
           \/ Len(allItems[k].description) = Len(allItems[j].description) /\ j <= k

\* the indices at which a key is seen for the first time, ascending
RECURSIVE FirstSeenIndices(_, _)
FirstSeenIndices(keys, i) ==
  IF i > Len(allItems) THEN <<>>
  ELSE (IF \A k \in 1..(i - 1) : keys[k] # keys[i] THEN <<i>> ELSE <<>>)
         \o FirstSeenIndices(keys, i + 1)

\* C10: deduplicateItems returns exactly one item per distinct normalized
\* key; the survivor of a key is the item with the longest description among
\* those sharing the key (the earliest such on a tie); the survivors appear
\* in the order in which their keys were first seen.
C10_LongestDescriptionSurvives ==
  dpc = "done" =>
    LET keys == [i \in 1..Len(allItems) |-> KeyOf(allItems[i])]
        first == FirstSeenIndices(keys, 1)
    IN  /\ Len(dedupedItems) = Len(first)
        /\ \A n \in 1..Len(first) :
             dedupedItems[n] = allItems[SurvivorIndex(keys, first[n])]

\* C10 witness: three items of one key, the second and third with the longest
\* description, after an item of another key
C10_Witness ==
  /\ dpc = "done"
  /\ Len(allItems) = 3
  /\ allItems[1] = [title |-> FixLoginBug, description |-> <<"x">>]
  /\ allItems[2] = [title |-> FixTheLoginBug, description |-> <<>>]
  /\ allItems[3] = [title |-> FixLoginBugBang, description |-> <<"x">>]
  /\ dedupedItems = <<allItems[1], allItems[2]>>

\* C11: deduplicateItems is idempotent: deduplicating the list it returned
\* gives that list again, items and order included.
C11_DedupIdempotent ==
  dpc = "done" => deduplicateItems(dedupedItems) = dedupedItems

\* C11 witness: a list with a collision and two keys has been deduplicated
C11_Witness ==
  /\ dpc = "done"
  /\ Len(dedupedItems) = 2
  /\ Len(allItems) = 3
  /\ titleKey(allItems[1].title) = titleKey(allItems[3].title)
  /\ allItems[3] = dedupedItems[1]
  /\ deduplicateItems(dedupedItems) = dedupedItems

-----------------------------------------------------------------------------
(* parseAndValidateResponse (AI service).  A response text is either not    *)
(* JSON, or the text of a JSON value; a JSON value is kept with its JS      *)
(* type: t is "undefined" (a property that is absent), "null", "number",    *)
(* "boolean", "string", "array" or "object".  Strings are sequences of      *)
(* characters; an object is a function from its property names.             *)

Undefined == [t |-> "undefined"]

JNull == [t |-> "null"]

JNum(n) == [t |-> "number", n |-> n]

JBool(b) == [t |-> "boolean", b |-> b]

JStr(s) == [t |-> "string", s |-> s]

JArr(a) == [t |-> "array", a |-> a]

JObj(f) == [t |-> "object", f |-> f]

\* ToBoolean, as applied by `&&` and `||`
truthy(v) ==
  CASE v.t \in {"undefined", "null"} -> FALSE
    [] v.t = "number" -> v.n # 0
    [] v.t = "boolean" -> v.b
    [] v.t = "string" -> v.s # <<>>
    [] OTHER -> TRUE

\* Array.isArray
isArray(v) == v.t = "array"

\* reading a property of null or undefined throws a TypeError
readThrows(v) == v.t \in {"undefined", "null"}

\* v.k for a value whose properties can be read: the property of an object,
\* undefined on a primitive or an array (none of the names read is theirs)
prop(v, k) ==
  IF v.t = "object" /\ k \in DOMAIN v.f THEN v.f[k] ELSE Undefined

\* x?.toLowerCase() throws a TypeError when x is neither nullish nor a string
toLowerCaseThrows(v) == v.t \notin {"undefined", "null", "string"}

\* x?.toLowerCase(): undefined for a nullish x
optionalToLowerCase(v) ==
  IF v.t = "string" THEN JStr(toLowerCase(v.s)) ELSE Undefined

\* validateWorkItemType, when type?.toLowerCase() does not throw
validateWorkItemType(type) ==
  LET normalized == optionalToLowerCase(type)
  IN  IF normalized \in {JStr(<<"b", "u", "g">>), JStr(<<"d", "e", "f", "e", "c", "t">>), JStr(<<"f", "i", "x">>)} THEN "Bug"
      ELSE IF normalized \in {JStr(<<"u", "s", "e", "r", " ", "s", "t", "o", "r", "y">>), JStr(<<"s", "t", "o", "r", "y">>), JStr(<<"f", "e", "a", "t", "u", "r", "e">>)} THEN "User Story"
      ELSE "Task"

\* validatePriority, when priority?.toLowerCase() does not throw
validatePriority(priority) ==
  LET normalized == optionalToLowerCase(priority)
  IN  IF normalized \in {JStr(<<"h", "i", "g", "h">>), JStr(<<"c", "r", "i", "t", "i", "c", "a", "l">>), JStr(<<"u", "r", "g", "e", "n", "t">>), JStr(<<"1">>)} THEN "High"
      ELSE IF normalized \in {JStr(<<"l", "o", "w">>), JStr(<<"m", "i", "n", "o", "r">>), JStr(<<"3">>)} THEN "Low"
      ELSE "Medium"

\* the longest title sanitizeTitle keeps
TITLE_MAX == 255

\* s.replace(re, " ") for a regular expression matching the maximal runs of
\* the characters in `cls`
RECURSIVE replaceRuns(_, _, _)
replaceRuns(s, cls, inRun) ==
  IF s = <<>> THEN <<>>
  ELSE IF Head(s) \in cls
       THEN (IF inRun THEN <<>> ELSE <<" ">>) \o replaceRuns(Tail(s), cls, TRUE)
       ELSE <<Head(s)>> \o replaceRuns(Tail(s), cls, FALSE)

\* title.trim().substring(0, 255).replace(/[\r\n]+/g, " ").replace(/\s+/g, " ")
sanitizeTitle(title) ==
  LET trimmed == trim(title)
      cut == SubSeq(trimmed, 1, Min(Len(trimmed), TITLE_MAX))
  IN  replaceRuns(replaceRuns(cut, {"\n"}, FALSE), {" ", "\n"}, FALSE)

Unassigned == <<"U", "n", "a", "s", "s", "i", "g", "n", "e", "d">>

\* the filter: item && typeof item.title === "string" && item.title.trim().length > 0
keepsItem(item) ==
  /\ truthy(item)
  /\ prop(item, "title").t = "string"
  /\ Len(trim(prop(item, "title").s)) > 0

\* x || d
orElse(x, d) == IF truthy(x) THEN x ELSE d

\* the map callback throws when a validator does
mapThrows(item) ==
  toLowerCaseThrows(prop(item, "type")) \/ toLowerCaseThrows(prop(item, "priority"))

\* the map callback
validatedItem(item) ==
  [title |-> sanitizeTitle(prop(item, "title").s),
   assignedTo |-> orElse(prop(item, "assignedTo"), JStr(Unassigned)),
   type |-> validateWorkItemType(prop(item, "type")),
   priority |-> validatePriority(prop(item, "priority")),
   description |-> orElse(prop(item, "description"), JStr(<<>>)),
   deadline |-> orElse(prop(item, "deadline"), Undefined)]

\* a response text that is not JSON / the text of the JSON value v
NotJson == [json |-> FALSE]

JsonText(v) == [json |-> TRUE, value |-> v]

\* the ActionAgentError thrown by the catch block, around the error caught
ParseFailure(cause) ==
  ActionAgentError("Failed to parse AI response as JSON", CtxId, FALSE,
                   PlainError(cause, FALSE, 0))

\* mutant: the `tasks` property is not accepted
selectItems_NoTasks(parsed) ==
  IF isArray(parsed) THEN [found |-> TRUE, items |-> parsed.a, summary |-> Undefined]
  ELSE IF truthy(prop(parsed, "actionItems")) /\ isArray(prop(parsed, "actionItems"))
       THEN [found |-> TRUE, items |-> prop(parsed, "actionItems").a,
             summary |-> prop(parsed, "summary")]
  ELSE [found |-> FALSE]

\* the if / else-if chain over the response formats, for a parsed value whose
\* properties can be read
selectItems(parsed) ==
  IF isArray(parsed) THEN [found |-> TRUE, items |-> parsed.a, summary |-> Undefined]
  ELSE IF truthy(prop(parsed, "actionItems")) /\ isArray(prop(parsed, "actionItems"))
       THEN [found |-> TRUE, items |-> prop(parsed, "actionItems").a,
             summary |-> prop(parsed, "summary")]
  ELSE IF truthy(prop(parsed, "tasks")) /\ isArray(prop(parsed, "tasks"))
       THEN [found |-> TRUE, items |-> prop(parsed, "tasks").a,
             summary |-> prop(parsed, "summary")]
  ELSE [found |-> FALSE]

\* parseAndValidateResponse: the ActionItemsResponse returned, or the error
\* thrown by the catch block, which catches the SyntaxError of JSON.parse and
\* every TypeError raised inside the try block
parseAndValidateResponse(content) ==
  IF ~content.json THEN [cls |-> "thrown", error |-> ParseFailure("SyntaxError")]
  ELSE LET parsed == content.value
       IN  IF ~isArray(parsed) /\ readThrows(parsed)
           THEN [cls |-> "thrown", error |-> ParseFailure("TypeError")]
           ELSE LET sel == selectItems(parsed)
                IN  IF ~sel.found
                    THEN [cls |-> "value", actionItems |-> <<>>, summary |-> Undefined]
                    ELSE LET kept == SelectSeq(sel.items, keepsItem)
                         IN  IF \E i \in 1..Len(kept) : mapThrows(kept[i])
                             THEN [cls |-> "thrown", error |-> ParseFailure("TypeError")]
                             ELSE [cls |-> "value",
                                   actionItems |-> [i \in 1..Len(kept) |-> validatedItem(kept[i])],
                                   summary |-> sel.summary]

-----------------------------------------------------------------------------
(* SpecParse: parseAndValidateResponse applied to a response text: not      *)
(* JSON, a primitive, or a list of at most MaxRecords records, bare or      *)
(* wrapped in an object.  A property whose value is Undefined is absent.    *)

TypeStrings ==
  {<<"b", "u", "g">>,
   <<"D", "e", "f", "e", "c", "t">>,
   <<"F", "I", "X">>,
   <<"u", "s", "e", "r", " ", "s", "t", "o", "r", "y">>,
   <<"S", "t", "o", "r", "y">>,
   <<"f", "e", "a", "t", "u", "r", "e">>,
   <<"c", "h", "o", "r", "e">>}

PriorityStrings ==
  {<<"h", "i", "g", "h">>,
   <<"C", "r", "i", "t", "i", "c", "a", "l">>,
   <<"1">>,
   <<"l", "o", "w">>,
   <<"3">>,
   <<"s", "o", "o", "n">>}

\* JSON values that are not strings, and the absent property
NonStrings == {Undefined, JNull, JNum(1), JNum(0), JBool(TRUE)}

TypeValues == {JStr(s) : s \in TypeStrings} \cup NonStrings

PriorityValues == {JStr(s) : s \in PriorityStrings} \cup NonStrings

TitleValues == {JStr(<<"F", "i", "x", "\n", "i", "t">>), JStr(<<" ", "a", " ", " ", "b", " ">>), JStr(<<" ">>), Undefined, JNum(1)}

Record(title, type, priority) ==
  JObj([title |-> title, type |-> type, priority |-> priority,
        assignedTo |-> Undefined, description |-> Undefined, deadline |-> Undefined])

\* the elements of a response array: records that differ in one field, and
\* elements that are not objects
Records ==
  {Record(JStr(FixLoginBug), ty, Undefined) : ty \in TypeValues}
    \cup {Record(JStr(FixLoginBug), Undefined, pr) : pr \in PriorityValues}
    \cup {Record(ti, Undefined, Undefined) : ti \in TitleValues}
    \cup {JNull, JNum(1)}

\* the elements that follow the first one of a list: a well-formed record,
\* a record without a title, a record with a numeric priority, a null
TailRecords ==
  {Record(JStr(FixLoginBug), JStr(<<"b", "u", "g">>), JStr(<<"h", "i", "g", "h">>)),
   Record(Undefined, Undefined, Undefined),
   Record(JStr(FixLoginBug), Undefined, JNum(1)),
   JNull}

RECURSIVE RecordLists(_)
\* the lists of n elements
RecordLists(n) ==
  IF n = 0 THEN {<<>>}
  ELSE IF n = 1 THEN {<<r>> : r \in Records}
  ELSE {Append(l, r) : l \in RecordLists(n - 1), r \in TailRecords}

AllRecordLists == UNION {RecordLists(n) : n \in 0..MaxRecords}

\* values of a property that are not arrays
NonArrays == {Undefined, JNull, JNum(1), JStr(<<"x">>), JObj([title |-> JStr(<<"x">>)])}

Wrapper(actionItems, tasks, summary) ==
  JObj([actionItems |-> actionItems, tasks |-> tasks, summary |-> summary])

\* the three accepted shapes of a list of records
AsBareArray(l) == JArr(l)

AsActionItems(l) == Wrapper(JArr(l), Undefined, Undefined)

AsTasks(l) == Wrapper(Undefined, JArr(l), Undefined)

JsonValues ==
  {JNull, JNum(0), JNum(5), JBool(TRUE), JBool(FALSE), JStr(<<>>), JStr(<<"x">>)}
    \cup {AsBareArray(l) : l \in AllRecordLists}
    \cup {AsActionItems(l) : l \in AllRecordLists}
    \cup {AsTasks(l) : l \in AllRecordLists}
    \cup {Wrapper(JArr(l), Undefined, JStr(<<"x">>)) : l \in AllRecordLists}
    \cup {Wrapper(a, b, Undefined) : a \in NonArrays, b \in NonArrays}
    \cup {Wrapper(a, JArr(l), Undefined) : a \in NonArrays \ {Undefined}, l \in RecordLists(1)}

Contents == {NotJson} \cup {JsonText(v) : v \in JsonValues}

ParseInit ==
  /\ response \in Contents
  /\ parsedResponse = None
  /\ ppc = "start"
  /\ cfg = DefaultConfig
  /\ RetryIdle
  /\ ChunkIdle
  /\ DedupIdle
  /\ BatchIdle
  /\ ExtractIdle
  /\ IdentityIdle
  /\ AssignIdle
  /\ HandlingIdle
  /\ VttIdle
  /\ DeadlineIdle
  /\ MetricsIdle

\* const parsed = parseAndValidateResponse(result, context)
ParseResponse ==
  /\ ppc = "start"
  /\ parsedResponse' = parseAndValidateResponse(response)
  /\ ppc' = "done"
  /\ UNCHANGED <<response, retryVars, chunkVars, dedupVars, batchVars, extractVars, identityVars, assignVars, handlingVars, vttVars, deadlineVars, metricVars>>

ParseNext == ParseResponse

SpecParse == ParseInit /\ [][ParseNext]_vars

-----------------------------------------------------------------------------
(* Claims about parseAndValidateResponse, checked under SpecParse *)

WorkItemTypes == {"Task", "Bug", "User Story"}

Priorities == {"High", "Medium", "Low"}

\* the three accepted shapes: a bare array, an object with an actionItems
\* array, an object with a tasks array
AcceptedShape(v) ==
  \/ isArray(v)
  \/ v.t = "object" /\ isArray(prop(v, "actionItems"))
  \/ v.t = "object" /\ isArray(prop(v, "tasks"))

Returned(r) == r.cls = "value"

\* C12 as stated: a response text that parses as JSON but is none of the
\* three accepted shapes (null, a number, a string, an object whose
\* actionItems / tasks is not an array, ...) yields an empty item list and
\* no error.
C12_OtherShapesYieldEmpty ==
  (ppc = "done" /\ response.json /\ ~AcceptedShape(response.value)) =>
    (Returned(parsedResponse) /\ parsedResponse.actionItems = <<>>)

\* C13 as stated: whatever the type and priority fields of the records of a
\* response are (a synonym in any letter case, another string, absent, null,
\* a non-string value such as the number 1), parseAndValidateResponse does not
\* raise and every item it returns has a type among Task / Bug / User Story
\* and a priority among High / Medium / Low.
C13_NormalisationTotal ==
  (ppc = "done" /\ response.json /\ AcceptedShape(response.value)) =>
    /\ Returned(parsedResponse)
    /\ \A i \in 1..Len(parsedResponse.actionItems) :
         /\ parsedResponse.actionItems[i].type \in WorkItemTypes
         /\ parsedResponse.actionItems[i].priority \in Priorities

\* what a call gave, the summary left aside
ItemsOutcome(r) ==
  IF Returned(r) THEN [cls |-> "value", actionItems |-> r.actionItems] ELSE r

\* C14: the same list of records as a bare array, as {actionItems: [...]} and
\* as {tasks: [...]} gives the same normalized item list (same items, same
\* order, same field values), or the same error, in all three cases.
C14_ThreeShapesAgree ==
  (ppc = "done" /\ response.json /\ isArray(response.value)) =>
    LET l == response.value.a
    IN  /\ ItemsOutcome(parseAndValidateResponse(JsonText(AsActionItems(l))))
             = ItemsOutcome(parsedResponse)
        /\ ItemsOutcome(parseAndValidateResponse(JsonText(AsTasks(l))))
             = ItemsOutcome(parsedResponse)

\* C14 witness: a bare array of two records, the first a bug, the second of
\* high priority, normalized as under the tasks wrapping
C14_Witness ==
  /\ ppc = "done"
  /\ response.json
  /\ isArray(response.value)
  /\ Len(response.value.a) = 2
  /\ Returned(parsedResponse)
  /\ Len(parsedResponse.actionItems) = 2
  /\ parsedResponse.actionItems[1].type = "Bug"
  /\ parsedResponse.actionItems[2].priority = "High"
  /\ parseAndValidateResponse(JsonText(AsTasks(response.value.a))).actionItems
       = parsedResponse.actionItems

-----------------------------------------------------------------------------
(* Identity resolution: searchUsersByName, resolveUser, resolveUsers and    *)
(* the process-wide user cache.  A name is a sequence of characters.  The   *)
(* calls of one batch run concurrently: each is a lookup whose pc is the    *)
(* directory query it awaits.                                               *)

CACHE_TTL_MS == 300000

BATCH_SIZE == 5

UnassignedLower == <<"u", "n", "a", "s", "s", "i", "g", "n", "e", "d">>

\* the directory error a query can be rejected with
DirectoryError == PlainError("status: 503", FALSE, 503)

\* confidence of the candidates of a strategy
confidenceOf(strategy) ==
  CASE strategy = "exact" -> "high"
    [] strategy = "prefix" -> "medium"
    [] strategy = "search" -> "low"

\* result.value.map(...): the candidates a query returned, in its order
Candidates(strategy, n) ==
  [j \in 1..n |-> [id |-> j, confidence |-> confidenceOf(strategy)]]

\* mutant: an entry is expired as soon as its age reaches the TTL
expired_Inclusive(t, timestamp) == t - timestamp >= CACHE_TTL_MS

\* cleanCache: now - timestamp > CACHE_TTL_MS
expired(t, timestamp) == t - timestamp > CACHE_TTL_MS

\* the keys cleanCache leaves in both maps at time t
liveKeys(timestamps, t) ==
  {k \in DOMAIN timestamps : ~expired(t, timestamps[k])}

\* a map restricted to the keys in `keys`
restrict(map, keys) == [k \in keys |-> map[k]]

\* Map.set
mapSet(map, key, value) ==
  [k \in DOMAIN map \cup {key} |-> IF k = key THEN value ELSE map[k]]

\* mutant: the next strategy is always tried
fallsThrough_Always(users) == TRUE

\* if (users.length === 0)
fallsThrough(users) == Len(users) = 0

\* the guard of resolveUser: !name || name.toLowerCase() === "unassigned"
isUnassigned(name) == name = <<>> \/ toLowerCase(name) = UnassignedLower

\* the ResolutionResult resolveUser builds from the users found
resolution(name, users) ==
  IF Len(users) = 0
  THEN [originalName |-> name, resolved |-> FALSE, user |-> None,
        alternatives |-> <<>>, error |-> "No matching users found"]
  ELSE [originalName |-> name, resolved |-> TRUE, user |-> users[1],
        alternatives |-> Tail(users), error |-> "none"]

\* the result of the guard of resolveUser
unresolvedByGuard(name) ==
  [originalName |-> name, resolved |-> FALSE, user |-> None,
   alternatives |-> <<>>, error |-> "none"]

\* a lookup not started yet (its batch has not begun)
PendingLookup(name) ==
  [name |-> name, pc |-> "pending", users |-> <<>>, trail |-> <<>>,
   hit |-> FALSE, age |-> -1, failure |-> None, result |-> None]

\* resolveUser(name) up to its first await, on the cache as cleanCache left
\* it: the guard, the cache hit, or the exact-match query issued.  `age` is
\* the time since the last userCache.set of the key (-1: never set).
startLookup(name, cache, age) ==
  LET key == toLowerCase(name)
      l == [PendingLookup(name) EXCEPT !.age = age]
  IN  IF isUnassigned(name)
      THEN [l EXCEPT !.pc = "done", !.result = unresolvedByGuard(name), !.age = -1]
      ELSE IF key \in DOMAIN cache
      THEN [l EXCEPT !.pc = "done", !.hit = TRUE, !.users = cache[key],
                     !.result = resolution(name, cache[key])]
      ELSE [l EXCEPT !.pc = "exact"]

\* mutant: a result is stored under the lower-cased name
resultKey_LowerCased(name) == toLowerCase(name)

\* results.set(batch[j], batchResults[j]): the key is the name as supplied
resultKey(name) == name

\* names.filter((n) => n && n !== "Unassigned")
keepsName(n) == n # <<>> /\ n # Unassigned

RECURSIVE uniqueSeq(_, _)
\* [...new Set(list)]: first occurrences, in order
uniqueSeq(list, seen) ==
  IF list = <<>> THEN <<>>
  ELSE IF Head(list) \in seen THEN uniqueSeq(Tail(list), seen)
  ELSE <<Head(list)>> \o uniqueSeq(Tail(list), seen \cup {Head(list)})

uniqueNamesOf(list) == uniqueSeq(SelectSeq(list, keepsName), {})

\* the indices of uniqueNames.slice(i, i + BATCH_SIZE)
identityBatch(i) == {j \in 1..Len(uniqueNames) : i < j /\ j <= i + BATCH_SIZE}

\* the time since the last userCache.set of the key of `name`
ageOf(name) ==
  IF storedAt[toLowerCase(name)] = -1 THEN -1 ELSE now - storedAt[toLowerCase(name)]

\* batch.map(resolveUser) for the batch that begins after index i: cleanCache
\* and the cache lookup of every call, or the return when no name is left
startBatch(i, names0, prev) ==
  LET live == liveKeys(cacheTimestamps, now)
      cache == restrict(userCache, live)
  IN  IF i >= Len(names0)
      THEN /\ ipc' = "returned"
           /\ UNCHANGED <<userCache, cacheTimestamps>>
           /\ lookups' = prev
      ELSE /\ ipc' = "batch"
           /\ userCache' = cache
           /\ cacheTimestamps' = restrict(cacheTimestamps, live)
           /\ lookups' = [j \in 1..Len(names0) |->
                            IF i < j /\ j <= i + BATCH_SIZE
                            THEN startLookup(names0[j], cache, ageOf(names0[j]))
                            ELSE IF j <= i THEN prev[j] ELSE PendingLookup(names0[j])]

\* a directory query can be rejected, or return 0..MaxCandidates users
QueryOutcomes == {[ok |-> FALSE, n |-> 0]} \cup [ok : {TRUE}, n : 0..MaxCandidates]

\* the strategy tried after `strategy`
nextStrategy(strategy) == IF strategy = "exact" THEN "prefix" ELSE "search"

\* mutant: an empty result set is not stored
cacheResults_NonEmptyOnly(key, users) ==
  IF Len(users) = 0
  THEN UNCHANGED <<userCache, cacheTimestamps, storedAt>>
  ELSE /\ userCache' = mapSet(userCache, key, users)
       /\ cacheTimestamps' = mapSet(cacheTimestamps, key, now)
       /\ storedAt' = [storedAt EXCEPT ![key] = now]

\* userCache.set(cacheKey, users); cacheTimestamps.set(cacheKey, Date.now())
cacheResults(key, users) ==
  /\ userCache' = mapSet(userCache, key, users)
  /\ cacheTimestamps' = mapSet(cacheTimestamps, key, now)
  /\ storedAt' = [storedAt EXCEPT ![key] = now]

\* the query awaited by lookup i ends: searchUsersByName goes on to the next
\* strategy, or caches and returns the users, or (exact and prefix queries)
\* returns [] from its catch block; resolveUser then builds its result
queryEnds(i, out) ==
  /\ i \in 1..Len(lookups)
  /\ lookups[i].pc \in {"exact", "prefix", "search"}
  /\ LET l == lookups[i]
         key == toLowerCase(l.name)
         tr == Append(l.trail, [strategy |-> l.pc, outcome |-> out])
         users == IF ~out.ok THEN l.users ELSE Candidates(l.pc, out.n)
     IN  IF ~out.ok /\ l.pc # "search"
         THEN /\ lookups' = [lookups EXCEPT ![i] =
                   [l EXCEPT !.pc = "done", !.trail = tr, !.users = <<>>,
                             !.failure = DirectoryError,
                             !.result = resolution(l.name, <<>>)]]
              /\ UNCHANGED <<userCache, cacheTimestamps, storedAt>>
         ELSE IF out.ok /\ l.pc # "search" /\ fallsThrough(users)
         THEN /\ lookups' = [lookups EXCEPT ![i] =
                   [l EXCEPT !.pc = nextStrategy(l.pc), !.trail = tr, !.users = users]]
              /\ UNCHANGED <<userCache, cacheTimestamps, storedAt>>
         ELSE /\ lookups' = [lookups EXCEPT ![i] =
                   [l EXCEPT !.pc = "done", !.trail = tr, !.users = users,
                             !.failure = IF ~out.ok THEN DirectoryError ELSE None,
                             !.result = resolution(l.name, users)]]
              /\ cacheResults(key, users)
  /\ UNCHANGED <<now, ticks, names, uniqueNames, rbi, resolved, ipc, callsMade>>

RECURSIVE setResults(_, _, _)
\* for (j ...) results.set(batch[j], batchResults[j]), over the lookups
\* i+1 .. last
setResults(map, i, last) ==
  IF i >= last THEN map
  ELSE setResults(mapSet(map, resultKey(lookups[i + 1].name), lookups[i + 1].result),
                  i + 1, last)

\* resolveUsers(list) is called: uniqueNames, and the first batch
resolveUsersEnter(list) ==
  /\ ipc = "start"
  /\ callsMade' = callsMade + 1
  /\ names' = list
  /\ uniqueNames' = uniqueNamesOf(list)
  /\ rbi' = 0
  /\ resolved' = <<>>
  /\ startBatch(0, uniqueNamesOf(list), <<>>)
  /\ UNCHANGED <<now, ticks, storedAt>>

\* Promise.all(batch.map(resolveUser)) is fulfilled: the results are set and
\* the next batch begins, or resolveUsers returns
batchResolved ==
  /\ ipc = "batch"
  /\ \A j \in identityBatch(rbi) : lookups[j].pc = "done"
  /\ resolved' = setResults(resolved, rbi, Min(rbi + BATCH_SIZE, Len(uniqueNames)))
  /\ rbi' = rbi + BATCH_SIZE
  /\ startBatch(rbi + BATCH_SIZE, uniqueNames, lookups)
  /\ UNCHANGED <<now, ticks, storedAt, names, uniqueNames, callsMade>>

\* resolveUser(name) is called on its own (as createWorkItem does), no other
\* lookup being in progress: cleanCache, then the guard, the cache hit or the
\* exact-match query
resolveUserEnter(name) ==
  /\ ipc \in {"start", "lookup"}
  /\ \A j \in 1..Len(lookups) : lookups[j].pc = "done"
  /\ callsMade < MaxCalls
  /\ callsMade' = callsMade + 1
  /\ ipc' = "lookup"
  /\ LET live == liveKeys(cacheTimestamps, now)
     IN  /\ userCache' = restrict(userCache, live)
         /\ cacheTimestamps' = restrict(cacheTimestamps, live)
         /\ lookups' = <<startLookup(name, restrict(userCache, live), ageOf(name))>>
  /\ UNCHANGED <<now, ticks, storedAt, names, uniqueNames, rbi, resolved>>

\* Date.now() moves on by d milliseconds
clockAdvances(d) ==
  /\ ipc # "idle"
  /\ ticks < MaxTicks
  /\ ticks' = ticks + 1
  /\ now' = now + d
  /\ UNCHANGED <<userCache, cacheTimestamps, storedAt, names, uniqueNames, rbi,
                 lookups, resolved, ipc, callsMade>>

-----------------------------------------------------------------------------
(* SpecResolve: one call of resolveUsers on a list of at most MaxNames    *)
(* names, the cache empty.                                                  *)

NameAl == <<"A", "l">>

NameAlLower == <<"a", "l">>

Names == {NameAl, NameAlLower, Unassigned, UnassignedLower, <<>>}

CacheKeys == {toLowerCase(n) : n \in Names}

RECURSIVE NameLists(_)
\* the lists of n names
NameLists(n) ==
  IF n = 0 THEN {<<>>}
  ELSE {Append(l, x) : l \in NameLists(n - 1), x \in Names}

\* the clock steps explored: a millisecond, and the TTL
ClockSteps == {1, CACHE_TTL_MS}

ResolveInit ==
  /\ now = 0
  /\ ticks = 0
  /\ userCache = <<>>
  /\ cacheTimestamps = <<>>
  /\ storedAt = [k \in CacheKeys |-> -1]
  /\ names = <<>>
  /\ uniqueNames = <<>>
  /\ rbi = 0
  /\ lookups = <<>>
  /\ resolved = <<>>
  /\ ipc = "start"
  /\ callsMade = 0
  /\ cfg = DefaultConfig
  /\ RetryIdle
  /\ ChunkIdle
  /\ DedupIdle
  /\ BatchIdle
  /\ ExtractIdle
  /\ ParseIdle
  /\ AssignIdle
  /\ HandlingIdle
  /\ VttIdle
  /\ DeadlineIdle
  /\ MetricsIdle

ResolveUsersEnter ==
  /\ \E n \in 0..MaxNames : \E list \in NameLists(n) : resolveUsersEnter(list)
  /\ UNCHANGED <<retryVars, chunkVars, dedupVars, batchVars, extractVars, parseVars, assignVars, handlingVars, vttVars, deadlineVars, metricVars>>

QueryEnds ==
  /\ \E i \in 1..Len(lookups) : \E out \in QueryOutcomes : queryEnds(i, out)
  /\ UNCHANGED <<retryVars, chunkVars, dedupVars, batchVars, extractVars, parseVars, assignVars, handlingVars, vttVars, deadlineVars, metricVars>>

BatchResolved ==
  /\ batchResolved
  /\ UNCHANGED <<retryVars, chunkVars, dedupVars, batchVars, extractVars, parseVars, assignVars, handlingVars, vttVars, deadlineVars, metricVars>>

ResolveNext == ResolveUsersEnter \/ QueryEnds \/ BatchResolved

SpecResolve == ResolveInit /\ [][ResolveNext]_vars

-----------------------------------------------------------------------------
(* SpecLookup: up to MaxCalls calls of resolveUser, one after the other,    *)
(* while the clock advances at most MaxTicks times.                         *)

ResolveUserEnter ==
  /\ \E name \in Names : resolveUserEnter(name)
  /\ UNCHANGED <<retryVars, chunkVars, dedupVars, batchVars, extractVars, parseVars, assignVars, handlingVars, vttVars, deadlineVars, metricVars>>

ClockAdvances ==
  /\ \E d \in ClockSteps : clockAdvances(d)
  /\ UNCHANGED <<retryVars, chunkVars, dedupVars, batchVars, extractVars, parseVars, assignVars, handlingVars, vttVars, deadlineVars, metricVars>>

LookupNext == ResolveUserEnter \/ QueryEnds \/ ClockAdvances

SpecLookup == ResolveInit /\ [][LookupNext]_vars

-----------------------------------------------------------------------------
(* Claims about identity resolution *)

\* the lookups that went past the guard of resolveUser
Searched == {i \in 1..Len(lookups) : ~isUnassigned(lookups[i].name)}

\* the lookups whose result resolveUser has built
Finished == {i \in 1..Len(lookups) : lookups[i].pc = "done"}

\* the names of the list given to resolveUsers
Supplied == {names[j] : j \in 1..Len(names)}

\* C17: resolveUser never rejects: when a directory query fails during the
\* resolution of a name, the result for that name is resolved = false with
\* the directory error recorded in its error field, and resolveUsers still
\* returns a result for every other name of the batch.
C17_FailureRecordedInResult ==
  /\ \A i \in Finished :
       /\ lookups[i].result # None
       /\ lookups[i].failure # None =>
            /\ lookups[i].result.resolved = FALSE
            /\ lookups[i].result.error = lookups[i].failure.msg
  /\ ipc = "returned" =>
       \A i \in 1..Len(lookups) : resultKey(lookups[i].name) \in DOMAIN resolved

TrailOrder == <<"exact", "prefix", "search">>

\* the strategy that produced the users of a finished lookup
producedBy(l) == l.trail[Len(l.trail)].strategy

\* C18: on a cache miss the directory is queried in the order exact match,
\* prefix match, search; a later strategy is queried only if every earlier
\* one returned no candidate; all candidates of the returned set carry the
\* confidence of the single strategy that produced them, so the identity
\* chosen for a resolved name and its alternatives never mix tiers.
C18_StrategiesInOrderOneTier ==
  \A i \in Searched :
    LET l == lookups[i]
    IN  /\ Len(l.trail) <= 3
        /\ \A j \in 1..Len(l.trail) : l.trail[j].strategy = TrailOrder[j]
        /\ \A j \in 1..(Len(l.trail) - 1) :
             l.trail[j].outcome.ok /\ l.trail[j].outcome.n = 0
        /\ l.pc \in {"exact", "prefix", "search"} =>
             l.pc = TrailOrder[Len(l.trail) + 1]
        /\ (l.pc = "done" /\ ~l.hit) =>
             /\ Len(l.trail) >= 1
             /\ \A j \in 1..Len(l.users) :
                  l.users[j].confidence = confidenceOf(producedBy(l))
             /\ l.result.resolved =>
                  /\ l.result.user.confidence = confidenceOf(producedBy(l))
                  /\ \A j \in 1..Len(l.result.alternatives) :
                       l.result.alternatives[j].confidence = confidenceOf(producedBy(l))

C18_Witness ==
  \E i \in Searched :
    /\ lookups[i].pc = "done"
    /\ Len(lookups[i].trail) = 2
    /\ lookups[i].result.resolved
    /\ lookups[i].result.user.confidence = "medium"
    /\ Len(lookups[i].result.alternatives) = 1
    /\ lookups[i].result.alternatives[1].confidence = "medium"

\* C19 (as stated): for every list of names, the map returned by resolveUsers
\* has exactly one entry per distinct input string, keyed by that string
\* exactly as supplied: names that differ only in letter case get separate
\* entries, and every supplied name has an entry.
C19_EntryForEverySuppliedName ==
  ipc = "returned" =>
    /\ DOMAIN resolved = Supplied
    /\ \A n \in DOMAIN resolved : resolved[n].originalName = n

\* C19 (amended): the map returned by resolveUsers has exactly one entry per
\* distinct input string other than the empty string and the string
\* "Unassigned", keyed by that string exactly as supplied; names that differ
\* only in letter case get separate entries; the empty string and
\* "Unassigned" get no entry.
C19_EntryForEveryKeptName ==
  ipc = "returned" =>
    /\ DOMAIN resolved = Supplied \ {<<>>, Unassigned}
    /\ \A n \in DOMAIN resolved : resolved[n].originalName = n

C19_Witness ==
  /\ ipc = "returned"
  /\ NameAl \in Supplied
  /\ NameAlLower \in Supplied
  /\ NameAl \in DOMAIN resolved
  /\ NameAlLower \in DOMAIN resolved
  /\ resolved[NameAl].resolved
  /\ ~resolved[NameAlLower].resolved

\* C20: a lookup is answered from the identity cache, with no directory
\* query, exactly when a result for the same lower-cased name was stored no
\* more than 5 minutes earlier; an entry older than the TTL is never
\* returned, and a cache hit does not extend the entry's lifetime.
C20_CacheHitWithinTtl ==
  /\ \A i \in Searched :
       LET l == lookups[i]
       IN  /\ l.hit <=> (l.age # -1 /\ l.age <= 5 * 60 * 1000)
           /\ l.hit => (l.pc = "done" /\ l.trail = <<>>)
           /\ ~l.hit => (l.pc # "done" \/ Len(l.trail) >= 1)
  /\ \A k \in DOMAIN cacheTimestamps : cacheTimestamps[k] = storedAt[k]
  /\ DOMAIN userCache = DOMAIN cacheTimestamps

C20_Witness ==
  \E i \in Searched :
    /\ lookups[i].hit
    /\ lookups[i].age = CACHE_TTL_MS
    /\ callsMade = 2
    /\ lookups[i].result.resolved

\* the lookups that missed the cache and have returned their users
ReturnedMisses == {i \in Searched : lookups[i].pc = "done" /\ ~lookups[i].hit}

\* the result set of lookup i is what the cache holds for its key
StoredFor(i) ==
  LET key == toLowerCase(lookups[i].name)
  IN  /\ key \in DOMAIN userCache
      /\ userCache[key] = lookups[i].users
      /\ storedAt[key] # -1

\* a hit returns the stored set and issues no query
HitsAreStoredSets ==
  \A i \in Searched :
    lookups[i].hit =>
      /\ lookups[i].trail = <<>>
      /\ lookups[i].users = userCache[toLowerCase(lookups[i].name)]

EndedByRejection(i) ==
  /\ lookups[i].failure # None
  /\ producedBy(lookups[i]) # "search"

-----------------------------------------------------------------------------
(* createWorkItem (DevOps service): the identity resolution of the items    *)
(* of one group of createWorkItems, which start together and share the      *)
(* identity cache, and the assigned-to field of the patch document.         *)

\* how many items the group has (at most MAX_CONCURRENT)
MaxGroupItems == 2

\* user.userPrincipalName of a directory user
userPrincipalName(user) == <<"u", "p", "n">> \o [j \in 1..user.id |-> "x"]

\* mutant: the original name whatever the resolution
getDevOpsIdentity_OriginalName(res) == res.originalName

\* getDevOpsIdentity
getDevOpsIdentity(res) ==
  IF res.resolved /\ res.user # None
  THEN userPrincipalName(res.user)
  ELSE res.originalName

\* if (resolveIdentities && task.assignedTo && task.assignedTo !== "Unassigned")
needsResolution(assignedTo, flag) ==
  flag /\ assignedTo # <<>> /\ assignedTo # Unassigned

\* the local assigneeIdentity once resolveUser has returned `res`
assigneeIdentity(assignedTo, res) ==
  IF res # None /\ res.resolved THEN getDevOpsIdentity(res) ELSE assignedTo

\* buildPatchDocument: the /fields/System.AssignedTo operation
buildPatchDocument(identity, triage) ==
  IF identity # <<>> /\ identity # Unassigned
  THEN [assignedTo |-> [present |-> TRUE, value |-> identity]]
  ELSE IF triage # <<>>
  THEN [assignedTo |-> [present |-> TRUE, value |-> triage]]
  ELSE [assignedTo |-> [present |-> FALSE, value |-> <<>>]]

\* batch.map((task) => createWorkItem(task, resolveIdentities)): every call
\* runs up to its first await, the exact-match query of resolveUser or
\* connection.getWorkItemTrackingApi()
createWorkItemEnter(list, flag, triage) ==
  /\ ipc = "group"
  /\ apc = <<>>
  /\ list # <<>>
  /\ assignees' = list
  /\ resolveIdentities' = flag
  /\ triageUser' = triage
  /\ LET live == liveKeys(cacheTimestamps, now)
         cache == restrict(userCache, live)
         started == [i \in 1..Len(list) |->
                       IF needsResolution(list[i], flag)
                       THEN startLookup(list[i], cache, ageOf(list[i]))
                       ELSE PendingLookup(list[i])]
     IN  /\ userCache' = cache
         /\ cacheTimestamps' = restrict(cacheTimestamps, live)
         /\ lookups' = started
         /\ apc' = [i \in 1..Len(list) |->
                      IF started[i].pc \in {"exact", "prefix", "search"}
                      THEN "resolving" ELSE "connecting"]
  /\ patches' = [i \in 1..Len(list) |-> None]
  /\ UNCHANGED <<now, ticks, storedAt, names, uniqueNames, rbi, resolved, ipc, callsMade>>

\* a directory query of item i ends; when resolveUser returns, createWorkItem
\* goes on to await connection.getWorkItemTrackingApi()
resolutionStep(i, out) ==
  /\ queryEnds(i, out)
  /\ apc' = [apc EXCEPT ![i] = IF lookups'[i].pc = "done" THEN "connecting" ELSE "resolving"]
  /\ UNCHANGED <<assignees, resolveIdentities, triageUser, patches>>

\* the tracking API is there: the patch document is built and
\* workItemTracking.createWorkItem is called with it
connectionReady(i) ==
  /\ i \in 1..Len(apc)
  /\ apc[i] = "connecting"
  /\ patches' = [patches EXCEPT ![i] =
       buildPatchDocument(assigneeIdentity(assignees[i], lookups[i].result), triageUser)]
  /\ apc' = [apc EXCEPT ![i] = "creating"]
  /\ UNCHANGED <<assignees, resolveIdentities, triageUser, identityVars>>

-----------------------------------------------------------------------------
(* SpecAssign: one group of at most MaxGroupItems items, the cache empty.   *)

TriageUser == <<"t", "r", "i", "a", "g", "e">>

AssigneeNames == {NameAl, NameAlLower, Unassigned, UnassignedLower}

\* a query of the group is rejected, or returns no user or one user
GroupQueryOutcomes == {out \in QueryOutcomes : out.n <= 1}

RECURSIVE AssigneeLists(_)
\* the lists of n assignees
AssigneeLists(n) ==
  IF n = 0 THEN {<<>>}
  ELSE {Append(l, x) : l \in AssigneeLists(n - 1), x \in AssigneeNames}

AssignInit ==
  /\ now = 0
  /\ ticks = 0
  /\ userCache = <<>>
  /\ cacheTimestamps = <<>>
  /\ storedAt = [k \in CacheKeys |-> -1]
  /\ names = <<>>
  /\ uniqueNames = <<>>
  /\ rbi = 0
  /\ lookups = <<>>
  /\ resolved = <<>>
  /\ ipc = "group"
  /\ callsMade = 0
  /\ AssignIdle
  /\ cfg = DefaultConfig
  /\ RetryIdle
  /\ ChunkIdle
  /\ DedupIdle
  /\ BatchIdle
  /\ ExtractIdle
  /\ ParseIdle
  /\ HandlingIdle
  /\ VttIdle
  /\ DeadlineIdle
  /\ MetricsIdle

CreateWorkItemEnter ==
  /\ \E n \in 1..MaxGroupItems : \E list \in AssigneeLists(n) :
       \E flag \in BOOLEAN : \E triage \in {<<>>, TriageUser} :
         createWorkItemEnter(list, flag, triage)
  /\ UNCHANGED <<retryVars, chunkVars, dedupVars, batchVars, extractVars, parseVars, handlingVars, vttVars, deadlineVars, metricVars>>

ResolutionStep ==
  /\ \E i \in 1..Len(lookups) : \E out \in GroupQueryOutcomes : resolutionStep(i, out)
  /\ UNCHANGED <<retryVars, chunkVars, dedupVars, batchVars, extractVars, parseVars, handlingVars, vttVars, deadlineVars, metricVars>>

ConnectionReady ==
  /\ \E i \in 1..Len(apc) : connectionReady(i)
  /\ UNCHANGED <<retryVars, chunkVars, dedupVars, batchVars, extractVars, parseVars, handlingVars, vttVars, deadlineVars, metricVars>>

AssignNext == CreateWorkItemEnter \/ ResolutionStep \/ ConnectionReady

SpecAssign == AssignInit /\ [][AssignNext]_vars

-----------------------------------------------------------------------------
(* Claims about createWorkItem *)

\* the items of the group whose resolveUser call queried the directory
Queried ==
  {i \in 1..Len(lookups) :
     lookups[i].pc \in {"exact", "prefix", "search"} \/ lookups[i].trail # <<>>}

\* C22: during one createWorkItems call with identity resolution enabled,
\* the directory is queried for each distinct assignee name at most once,
\* also when several items created concurrently in the same group share
\* that assignee and their cache lookups interleave with a directory query
\* still pending for that name.
C22_OneQueryPerAssignee ==
  \A i \in Queried : \A j \in Queried :
    assignees[i] = assignees[j] => i = j

-----------------------------------------------------------------------------
(* createWorkItems (DevOps service).  Task t is tasks[t - 1] of the code.  *)
(* A createWorkItem call is a promise: pending from the moment batch.map    *)
(* starts it until it is fulfilled with a work item result or rejected      *)
(* (withErrorHandling rejects with an ActionAgentError).                    *)

MAX_CONCURRENT == 5

DELAY_BETWEEN_BATCHES_MS == 500

\* what createWorkItem rejects with for task t
CreateError(t) == ActionAgentError("create failed", <<"DevOps.CreateWorkItem", t>>, FALSE, None)

\* what createWorkItem is fulfilled with for task t
WorkItemResult(t) == [task |-> t, correlationId |-> <<"DevOps.CreateWorkItem", t>>]

\* tasks.slice(i, i + MAX_CONCURRENT), as task numbers
batchOf(i) == (i + 1)..Min(i + MAX_CONCURRENT, nTasks)

IsSettled(st) == st.status \in {"fulfilled", "rejected"}

\* mutant: Promise.all, which rejects as soon as one promise is rejected
awaitBatch_PromiseAll(batch) ==
  IF \E t \in batch : callState[t].status = "rejected" THEN "rejects"
  ELSE IF \A t \in batch : IsSettled(callState[t]) THEN "resolves"
  ELSE "pending"

\* await Promise.allSettled(...): resolves once every promise of the batch
\* has settled, and never rejects
awaitBatch(batch) ==
  IF \A t \in batch : IsSettled(callState[t]) THEN "resolves" ELSE "pending"

\* mutant: the delay is also inserted after the last batch
delayFollows_Inclusive(i) == i + MAX_CONCURRENT <= nTasks

\* if (i + MAX_CONCURRENT < tasks.length)
delayFollows(i) == i + MAX_CONCURRENT < nTasks

RECURSIVE collect(_, _, _)
\* for (let j = 0; j < batchResults.length; j++) ...; acc = [results, errors]
collect(acc, t, last) ==
  IF t > last THEN acc
  ELSE collect(IF callState[t].status = "fulfilled"
               THEN [acc EXCEPT !.results = Append(@, callState[t].value)]
               ELSE [acc EXCEPT !.errors =
                       Append(@, [task |-> t, error |-> callState[t].reason])],
               t + 1, last)

\* the head of `for (let i = 0; i < tasks.length; i += MAX_CONCURRENT)`:
\* batch.map starts every createWorkItem call of the batch, or the loop is
\* left and `results` returned
BatchLoopHead(i) ==
  /\ bi' = i
  /\ IF i < nTasks
     THEN /\ callState' = [t \in 1..nTasks |->
                             IF t \in (i + 1)..Min(i + MAX_CONCURRENT, nTasks)
                             THEN [status |-> "pending"]
                             ELSE callState[t]]
          /\ bpc' = "awaiting"
     ELSE /\ bpc' = "returned"
          /\ UNCHANGED callState

createWorkItemsEnter ==
  /\ bpc = "start"
  /\ BatchLoopHead(0)
  /\ UNCHANGED <<nTasks, results, errors, delays>>

\* a pending createWorkItem call is fulfilled
createWorkItemFulfils(t) ==
  /\ callState[t].status = "pending"
  /\ callState' = [callState EXCEPT ![t] = [status |-> "fulfilled", value |-> WorkItemResult(t)]]
  /\ UNCHANGED <<nTasks, bi, results, errors, delays, bpc>>

\* a pending createWorkItem call is rejected
createWorkItemRejects(t) ==
  /\ callState[t].status = "pending"
  /\ callState' = [callState EXCEPT ![t] = [status |-> "rejected", reason |-> CreateError(t)]]
  /\ UNCHANGED <<nTasks, bi, results, errors, delays, bpc>>

\* the await of the batch ends: the outcomes are collected in batch order,
\* then the delay is started or the loop goes on
batchSettled ==
  /\ bpc = "awaiting"
  /\ awaitBatch(batchOf(bi)) # "pending"
  /\ IF awaitBatch(batchOf(bi)) = "rejects"
     THEN /\ bpc' = "rejected"
          /\ UNCHANGED <<bi, callState, results, errors>>
     ELSE LET acc == collect([results |-> results, errors |-> errors],
                             bi + 1, Min(bi + MAX_CONCURRENT, nTasks))
          IN  /\ results' = acc.results
              /\ errors' = acc.errors
              /\ IF delayFollows(bi)
                 THEN /\ bpc' = "delay"
                      /\ UNCHANGED <<bi, callState>>
                 ELSE BatchLoopHead(bi + MAX_CONCURRENT)
  /\ UNCHANGED <<nTasks, delays>>

\* setTimeout(resolve, DELAY_BETWEEN_BATCHES_MS) fires
delayElapsed ==
  /\ bpc = "delay"
  /\ delays' = Append(delays, DELAY_BETWEEN_BATCHES_MS)
  /\ BatchLoopHead(bi + MAX_CONCURRENT)
  /\ UNCHANGED <<nTasks, results, errors>>

-----------------------------------------------------------------------------
(* SpecBatch: createWorkItems over 0..MaxTasks tasks, every createWorkItem  *)
(* call free to succeed or fail, the calls of a batch settling in any order *)

BatchInit ==
  /\ nTasks \in 0..MaxTasks
  /\ bi = 0
  /\ callState = [t \in 1..nTasks |-> [status |-> "notStarted"]]
  /\ results = <<>>
  /\ errors = <<>>
  /\ delays = <<>>
  /\ bpc = "start"
  /\ cfg = DefaultConfig
  /\ RetryIdle
  /\ ChunkIdle
  /\ DedupIdle
  /\ ExtractIdle
  /\ ParseIdle
  /\ IdentityIdle
  /\ AssignIdle
  /\ HandlingIdle
  /\ VttIdle
  /\ DeadlineIdle
  /\ MetricsIdle

BatchEnter == createWorkItemsEnter /\ UNCHANGED <<retryVars, chunkVars, dedupVars, extractVars, parseVars, identityVars, assignVars, handlingVars, vttVars, deadlineVars, metricVars>>

CallFulfils == (\E t \in 1..nTasks : createWorkItemFulfils(t)) /\ UNCHANGED <<retryVars, chunkVars, dedupVars, extractVars, parseVars, identityVars, assignVars, handlingVars, vttVars, deadlineVars, metricVars>>

CallRejects == (\E t \in 1..nTasks : createWorkItemRejects(t)) /\ UNCHANGED <<retryVars, chunkVars, dedupVars, extractVars, parseVars, identityVars, assignVars, handlingVars, vttVars, deadlineVars, metricVars>>

BatchSettled == batchSettled /\ UNCHANGED <<retryVars, chunkVars, dedupVars, extractVars, parseVars, identityVars, assignVars, handlingVars, vttVars, deadlineVars, metricVars>>

DelayElapsed == delayElapsed /\ UNCHANGED <<retryVars, chunkVars, dedupVars, extractVars, parseVars, identityVars, assignVars, handlingVars, vttVars, deadlineVars, metricVars>>

BatchNext == BatchEnter \/ CallFulfils \/ CallRejects \/ BatchSettled \/ DelayElapsed

SpecBatch == BatchInit /\ [][BatchNext]_vars

-----------------------------------------------------------------------------
(* Claims about createWorkItems, checked under SpecBatch *)

Tasks == 1..nTasks

Started == {t \in Tasks : callState[t].status # "notStarted"}

InFlight == {t \in Tasks : callState[t].status = "pending"}

Fulfilled == {t \in Tasks : callState[t].status = "fulfilled"}

Rejected == {t \in Tasks : callState[t].status = "rejected"}

\* the number of the batch of task t, from 0
GroupOf(t) == (t - 1) \div MAX_CONCURRENT

\* C1: createWorkItems never rejects: it goes on until it returns, and then
\* every task has been attempted, `results` holds exactly one record per task
\* whose creation succeeded, `errors` exactly one (task, error) pair per task
\* whose creation failed, and successes + failures = n.
C1_SettleAll ==
  /\ bpc # "rejected"
  /\ bpc # "returned" => ENABLED BatchNext
  /\ bpc = "returned" =>
       /\ Started = Tasks
       /\ Fulfilled \cup Rejected = Tasks
       /\ Len(results) = Cardinality(Fulfilled)
       /\ Len(errors) = Cardinality(Rejected)
       /\ {results[k].task : k \in 1..Len(results)} = Fulfilled
       /\ {errors[k].task : k \in 1..Len(errors)} = Rejected
       /\ \A k \in 1..Len(errors) : errors[k].error = callState[errors[k].task].reason
       /\ Len(results) + Len(errors) = nTasks
  /\ \A t \in Rejected :
       \A u \in Tasks : (u > t /\ GroupOf(u) = GroupOf(t)) => u \in Started

\* C1 witness: 3 tasks, the creation of the 2nd fails: 2 records, 1 failure
C1_Witness ==
  /\ bpc = "returned"
  /\ nTasks = 3
  /\ Rejected = {2}
  /\ Len(results) = 2
  /\ Len(errors) = 1
  /\ errors[1].task = 2

\* C5: the tasks are created in consecutive groups of at most 5: at most 5
\* createWorkItem calls are in flight, no call of a group starts before every
\* call of the groups before it has settled and the 500 ms delay after each
\* of them has elapsed, and no delay follows the last group.
C5_GroupsOfFive ==
  /\ Cardinality(InFlight) <= 5
  /\ \A t \in Started :
       /\ \A u \in Tasks : u < t => u \in Started
       /\ \A u \in Tasks : GroupOf(u) < GroupOf(t) => u \in Fulfilled \cup Rejected
       /\ \A u \in Tasks : GroupOf(u) = GroupOf(t) => u \in Started
       /\ Len(delays) >= GroupOf(t)
  /\ \A k \in 1..Len(delays) : delays[k] = 500
  /\ bpc = "delay" => \E t \in Tasks : GroupOf(t) > Len(delays) /\ t \notin Started
  /\ bpc = "returned" =>
       Len(delays) = (IF nTasks = 0 THEN 0 ELSE GroupOf(nTasks))

\* C5 witness: 11 tasks, the third group started after two delays
C5_Witness ==
  /\ nTasks = 11
  /\ bpc = "awaiting"
  /\ InFlight = {11}
  /\ Len(delays) = 2
  /\ Cardinality(Rejected) >= 1

-----------------------------------------------------------------------------
(* extractActionItems and processLargeTranscript (AI service): the          *)
(* operation that extractActionItems hands to withRetry (through            *)
(* withErrorHandling, enableRetry: true).                                   *)
(* nChunks = 0 stands for a transcript of at most MAX_CHUNK_LENGTH          *)
(* characters, which is sent whole; nChunks >= 1 is chunks.length.          *)

\* mutant: the part number is the zero-based loop index
chunkPrompt_ZeroBased(i, n) == [part |-> i, of |-> n]

\* `[Part ${i + 1} of ${chunks.length}]\n\n${chunks[i]}`; a transcript that
\* is not chunked is sent without a label (part 0 of 0)
chunkPrompt(i, n) == IF n = 0 THEN [part |-> 0, of |-> 0] ELSE [part |-> i + 1, of |-> n]

\* what the backend can answer to an extraction request: content that does
\* not parse as JSON, or content that validates to no or one item, with or
\* without a summary
Responses == {[ok |-> FALSE]} \cup [ok : {TRUE}, hasItem : BOOLEAN, hasSummary : BOOLEAN]

\* what a backend request can fail with
BackendErrors == {PlainError("status: 503", FALSE, 503), PlainError("status: 404", FALSE, 404)}

\* parsed.actionItems / parsed.summary of the response to the request `label`
parsedItems(resp, label) ==
  IF resp.hasItem
  THEN <<[title |-> FixLoginBug, description |-> <<>>, part |-> label.part]>>
  ELSE <<>>

parsedSummary(resp, label) ==
  IF resp.hasSummary THEN <<[part |-> label.part]>> ELSE <<>>

Event(type, label) == [type |-> type, part |-> label.part, of |-> label.of, attempt |-> attempt]

ExtractionResult(items, summary) == [cls |-> "value", actionItems |-> items, summary |-> summary]

\* mutant: the operation starts again on the items and summaries that the
\* attempt before it had accumulated
operationStarts_KeepsAccumulated ==
  /\ OperationInFlight
  /\ epc = "idle"
  /\ ei' = 0
  /\ events' = Append(events, Event("request", chunkPrompt(0, nChunks)))
  /\ epc' = "awaiting"
  /\ UNCHANGED <<nChunks, eAllItems, eSummaries, retryVars>>

\* the operation is invoked: the first request is issued
operationStarts ==
  /\ OperationInFlight
  /\ epc = "idle"
  /\ ei' = 0
  /\ eAllItems' = <<>>
  /\ eSummaries' = <<>>
  /\ events' = Append(events, Event("request", chunkPrompt(0, nChunks)))
  /\ epc' = "awaiting"
  /\ UNCHANGED <<nChunks, retryVars>>

\* callOpenAI rejects: the error leaves the operation
backendFails(e) ==
  /\ epc = "awaiting"
  /\ events' = Append(events, Event("failed", chunkPrompt(ei, nChunks)))
  /\ epc' = "idle"
  /\ withRetryOnThrow(e)
  /\ UNCHANGED <<nChunks, ei, eAllItems, eSummaries>>

\* callOpenAI returns `resp`, which parseAndValidateResponse parses
backendResponds(resp) ==
  /\ epc = "awaiting"
  /\ LET label == chunkPrompt(ei, nChunks)
         items == eAllItems \o parsedItems(resp, label)
         sums == eSummaries \o parsedSummary(resp, label)
     IN  IF ~resp.ok
         THEN \* JSON.parse throws: ActionAgentError("Failed to parse ...")
              /\ events' = Append(events, Event("invalid", label))
              /\ epc' = "idle"
              /\ withRetryOnThrow(ParseError)
              /\ UNCHANGED <<nChunks, ei, eAllItems, eSummaries>>
         ELSE IF nChunks = 0
         THEN \* the transcript is not chunked: return parsed
              /\ events' = Append(events, Event("response", label))
              /\ epc' = "idle"
              /\ withRetryOnReturn(ExtractionResult(parsedItems(resp, label),
                                                    parsedSummary(resp, label)))
              /\ UNCHANGED <<nChunks, ei, eAllItems, eSummaries>>
         ELSE /\ eAllItems' = items
              /\ eSummaries' = sums
              /\ ei' = ei + 1
              /\ UNCHANGED nChunks
              /\ IF ei + 1 < nChunks
                 THEN \* next iteration: the request for the next chunk
                      /\ events' = events \o <<Event("response", label),
                                               Event("request", chunkPrompt(ei + 1, nChunks))>>
                      /\ epc' = "awaiting"
                      /\ UNCHANGED retryVars
                 ELSE IF Len(sums) >= 2
                 THEN \* generateConsolidatedSummary issues its request
                      /\ events' = events \o <<Event("response", label),
                                               Event("consolidate", [part |-> 0, of |-> nChunks])>>
                      /\ epc' = "consolidating"
                      /\ UNCHANGED retryVars
                 ELSE /\ events' = Append(events, Event("response", label))
                      /\ epc' = "idle"
                      /\ withRetryOnReturn(ExtractionResult(deduplicateItems(items), sums))

\* mutant: when the consolidation request is rejected the first summary is
\* returned alone
consolidatedSummary_RejectedFirst(outcome, summaries) ==
  CASE outcome = "content" -> <<[consolidated |-> summaries]>>
    [] outcome = "empty" -> <<summaries[1]>>
    [] outcome = "rejected" -> <<summaries[1]>>

\* how the request of generateConsolidatedSummary can end
ConsolidationOutcomes == {"content", "empty", "rejected"}

\* generateConsolidatedSummary for two or more summaries: the content of the
\* answer, summaries[0] when the answer has no content, the summaries joined
\* when the request is rejected
consolidatedSummary(outcome, summaries) ==
  CASE outcome = "content" -> <<[consolidated |-> summaries]>>
    [] outcome = "empty" -> <<summaries[1]>>
    [] outcome = "rejected" -> summaries

\* the consolidation request ends and processLargeTranscript returns
consolidationEnds(outcome) ==
  /\ epc = "consolidating"
  /\ events' = Append(events, Event(outcome, [part |-> 0, of |-> nChunks]))
  /\ epc' = "idle"
  /\ withRetryOnReturn(ExtractionResult(deduplicateItems(eAllItems),
                                        consolidatedSummary(outcome, eSummaries)))
  /\ UNCHANGED <<nChunks, ei, eAllItems, eSummaries>>

-----------------------------------------------------------------------------
(* SpecExtract: extractActionItems on a transcript of 0..MaxChunks chunks,  *)
(* every backend request free to fail or to return any of Responses.        *)

ExtractConfigs == {DefaultConfig, [DefaultConfig EXCEPT !.enableRetries = FALSE]}

ExtractInit ==
  /\ cfg \in ExtractConfigs
  /\ nChunks \in 0..MaxChunks
  /\ ei = 0
  /\ events = <<>>
  /\ eAllItems = <<>>
  /\ eSummaries = <<>>
  /\ epc = "idle"
  /\ RetryIdle
  /\ ChunkIdle
  /\ DedupIdle
  /\ BatchIdle
  /\ ParseIdle
  /\ IdentityIdle
  /\ AssignIdle
  /\ HandlingIdle
  /\ VttIdle
  /\ DeadlineIdle
  /\ MetricsIdle

ExtractEnter == withRetryEnter /\ UNCHANGED <<extractVars, chunkVars, dedupVars, batchVars, parseVars, identityVars, assignVars, handlingVars, vttVars, deadlineVars, metricVars>>

OperationStarts == operationStarts /\ UNCHANGED <<chunkVars, dedupVars, batchVars, parseVars, identityVars, assignVars, handlingVars, vttVars, deadlineVars, metricVars>>

BackendFails == (\E e \in BackendErrors : backendFails(e)) /\ UNCHANGED <<chunkVars, dedupVars, batchVars, parseVars, identityVars, assignVars, handlingVars, vttVars, deadlineVars, metricVars>>

BackendResponds == (\E r \in Responses : backendResponds(r)) /\ UNCHANGED <<chunkVars, dedupVars, batchVars, parseVars, identityVars, assignVars, handlingVars, vttVars, deadlineVars, metricVars>>

ConsolidationEnds == (\E o \in ConsolidationOutcomes : consolidationEnds(o)) /\ UNCHANGED <<chunkVars, dedupVars, batchVars, parseVars, identityVars, assignVars, handlingVars, vttVars, deadlineVars, metricVars>>

ExtractWake == withRetryWake /\ UNCHANGED <<extractVars, chunkVars, dedupVars, batchVars, parseVars, identityVars, assignVars, handlingVars, vttVars, deadlineVars, metricVars>>

ExtractNext ==
  \/ ExtractEnter
  \/ OperationStarts
  \/ BackendFails
  \/ BackendResponds
  \/ ConsolidationEnds
  \/ ExtractWake

SpecExtract == ExtractInit /\ [][ExtractNext]_vars

-----------------------------------------------------------------------------
(* Claims about the chunk loop, checked under SpecExtract *)

IsRequest(k) == events[k].type = "request"

\* how a request can end
Endings == {"response", "invalid", "failed"}

\* the parts of a list of tagged items or summaries
PartsOf(tagged) == [k \in 1..Len(tagged) |-> tagged[k].part]

NonDecreasing(parts) == \A k \in 1..(Len(parts) - 1) : parts[k] <= parts[k + 1]

Increasing(parts) == \A k \in 1..(Len(parts) - 1) : parts[k] < parts[k + 1]

\* C6: for a transcript of n chunks, within one extraction attempt the
\* request for chunk i+1 is issued only after the response for chunk i has
\* been received and validated: at most one extraction request is in flight,
\* the requests are labelled Part 1 of n .. Part n of n in that order, and
\* items and summaries are accumulated in chunk order.
C6_ChunksInOrder ==
  nChunks >= 1 =>
    /\ \A k \in 1..Len(events) :
         IsRequest(k) =>
           /\ events[k].of = nChunks
           /\ events[k].part \in 1..nChunks
           \* a request other than the last event has ended before the next event
           /\ k < Len(events) =>
                /\ events[k + 1].type \in Endings
                /\ events[k + 1].part = events[k].part
                /\ events[k + 1].attempt = events[k].attempt
           \* Part 1 opens an attempt; Part i+1 follows the validated response to Part i
           /\ events[k].part = 1 =>
                \A j \in 1..(k - 1) : events[j].attempt < events[k].attempt
           /\ events[k].part > 1 =>
                /\ events[k - 1].type = "response"
                /\ events[k - 1].part = events[k].part - 1
                /\ events[k - 1].attempt = events[k].attempt
    /\ (epc = "awaiting") = (events # <<>> /\ IsRequest(Len(events)))
    \* accumulation in chunk order, of the chunks answered so far
    /\ NonDecreasing(PartsOf(eAllItems))
    /\ Increasing(PartsOf(eSummaries))
    /\ \A k \in 1..Len(eAllItems) : eAllItems[k].part \in 1..ei
    /\ \A k \in 1..Len(eSummaries) : eSummaries[k].part \in 1..ei
    /\ (epc = "awaiting" /\ ei >= 1) =>
         \A p \in 1..ei : \E k \in 1..Len(events) :
           /\ events[k].type = "response"
           /\ events[k].part = p
           /\ events[k].attempt = attempt

\* C6 witness: the third request of a 3-chunk transcript is in flight, items
\* of chunks 1 and 2 accumulated
C6_Witness ==
  /\ nChunks = 3
  /\ epc = "awaiting"
  /\ ei = 2
  /\ PartsOf(eAllItems) = <<1, 2>>
  /\ PartsOf(eSummaries) = <<1, 2>>
  /\ Len(events) = 5

\* the text of a response that is not JSON
RawContent == "I found no action items."

RECURSIVE ErrorTexts(_)
\* what an error carries: its message, its correlation id, and what its
\* chain of causes carries
ErrorTexts(e) ==
  IF e = None THEN {}
  ELSE IF e.cls = "ActionAgentError"
       THEN {e.msg, e.correlationId} \cup ErrorTexts(e.cause)
  ELSE {e.msg}

\* extractActionItems has rejected because a response was not JSON
RejectedOnInvalid ==
  /\ rpc = "thrown"
  /\ events # <<>>
  /\ events[Len(events)].type = "invalid"

ConsolidationRequests ==
  {k \in 1..Len(events) : events[k].type = "consolidate" /\ events[k].attempt = attempt}

\* C16: merging the chunk summaries never fails the extraction: one summary
\* is returned unchanged without a backend request; for two or more exactly
\* one consolidation request is issued, and when it fails the result is the
\* chunk summaries in chunk order, not an error.
C16_SummaryMergeNeverFails ==
  /\ (events # <<>> /\ events[Len(events)].type \in ConsolidationOutcomes) =>
       rpc = "returned"
  /\ (nChunks >= 1 /\ rpc = "returned") =>
       /\ Len(eSummaries) = 0 => (settled.summary = <<>> /\ ConsolidationRequests = {})
       /\ Len(eSummaries) = 1 => (settled.summary = eSummaries /\ ConsolidationRequests = {})
       /\ Len(eSummaries) >= 2 =>
            /\ Cardinality(ConsolidationRequests) = 1
            /\ events[Len(events)].type = "rejected" =>
                 /\ settled.summary = eSummaries
                 /\ Increasing(PartsOf(eSummaries))

\* C16 witness: three chunk summaries, the consolidation request rejected
C16_Witness ==
  /\ rpc = "returned"
  /\ Len(eSummaries) = 3
  /\ events[Len(events)].type = "rejected"
  /\ settled.summary = eSummaries

\* the requests for chunk p, over all attempts
RequestsOf(p) == {k \in 1..Len(events) : IsRequest(k) /\ events[k].part = p}

\* the validated responses for chunk p of the running attempt
ResponsesOf(p) ==
  {k \in 1..Len(events) :
     events[k].type = "response" /\ events[k].part = p /\ events[k].attempt = attempt}

\* C28: when a retryable backend error occurs while chunk k of a chunked
\* transcript is being processed, the retry restarts the extraction from
\* chunk 1 and re-requests every earlier chunk; the result finally returned
\* is computed from one complete pass over all chunks (never mixing items or
\* summaries of different attempts), and over all attempts each chunk is
\* requested at most maxAttempts times.
C28_RetryRestartsFromFirstChunk ==
  nChunks >= 1 =>
    /\ \A k \in 1..Len(events) :
         /\ (events[k].type = "failed" /\ k < Len(events)) =>
              /\ IsRequest(k + 1)
              /\ events[k + 1].part = 1
              /\ events[k + 1].attempt = events[k].attempt + 1
         /\ IsRequest(k) =>
              \A p \in 1..(events[k].part - 1) :
                \E j \in 1..(k - 1) :
                  /\ IsRequest(j)
                  /\ events[j].part = p
                  /\ events[j].attempt = events[k].attempt
    /\ \A p \in 1..nChunks : Cardinality(RequestsOf(p)) <= cfg.maxAttempts
    /\ rpc = "returned" =>
         /\ \A p \in 1..nChunks : Cardinality(ResponsesOf(p)) = 1
         /\ Increasing(PartsOf(eAllItems))
         /\ Increasing(PartsOf(eSummaries))
         /\ settled.actionItems = deduplicateItems(eAllItems)

\* C28 witness: the request for chunk 2 failed in the first attempt, the
\* second attempt requested chunk 1 again and returned
C28_Witness ==
  /\ nChunks = 2
  /\ rpc = "returned"
  /\ attempt = 2
  /\ \E k \in 1..Len(events) :
       events[k].type = "failed" /\ events[k].part = 2 /\ events[k].attempt = 1
  /\ Cardinality(RequestsOf(1)) = 2
  /\ PartsOf(eAllItems) = <<1, 2>>
  /\ PartsOf(eSummaries) = <<1, 2>>

-----------------------------------------------------------------------------
(* SpecRetry: withRetry around an operation whose every invocation may      *)
(* succeed or fail with any of Errors.                                      *)

RetryInit == cfg \in Configs /\ RetryIdle /\ ChunkIdle /\ DedupIdle /\ BatchIdle /\ ExtractIdle /\ ParseIdle /\ IdentityIdle /\ AssignIdle /\ HandlingIdle /\ VttIdle /\ DeadlineIdle /\ MetricsIdle

Enter == withRetryEnter /\ UNCHANGED <<chunkVars, dedupVars, batchVars, extractVars, parseVars, identityVars, assignVars, handlingVars, vttVars, deadlineVars, metricVars>>

OperationReturns == withRetryOnReturn(Success) /\ UNCHANGED <<chunkVars, dedupVars, batchVars, extractVars, parseVars, identityVars, assignVars, handlingVars, vttVars, deadlineVars, metricVars>>

OperationThrows == (\E e \in Errors : withRetryOnThrow(e)) /\ UNCHANGED <<chunkVars, dedupVars, batchVars, extractVars, parseVars, identityVars, assignVars, handlingVars, vttVars, deadlineVars, metricVars>>

Wake == withRetryWake /\ UNCHANGED <<chunkVars, dedupVars, batchVars, extractVars, parseVars, identityVars, assignVars, handlingVars, vttVars, deadlineVars, metricVars>>

RetryNext == Enter \/ OperationReturns \/ OperationThrows \/ Wake

SpecRetry == RetryInit /\ [][RetryNext]_vars

-----------------------------------------------------------------------------
(* Claims about withRetry, checked under SpecRetry *)

IsError(o) == o.cls \in {"ActionAgentError", "Error", "NonError"}

RetryableAt(i) == i <= Len(outcomes) /\ IsError(outcomes[i]) /\ isRetryableError(outcomes[i])

\* the operation has failed with a retryable error on its first two
\* invocations, retries are enabled and maxAttempts >= 3
FailedTwice ==
  /\ cfg.enableRetries
  /\ cfg.maxAttempts >= 3
  /\ RetryableAt(1)
  /\ RetryableAt(2)

\* what withRetry does in that scenario, the order of the two sleeps aside:
\* it keeps going after each of the two failures, has slept once before each
\* re-invocation, and a success of the third invocation is returned at once
ThirdAttemptBehaviour ==
  /\ cfg.enableRetries /\ rpc = "running" => Len(sleeps) = Len(outcomes)
  /\ FailedTwice =>
       /\ Len(sleeps) >= 2
       /\ Len(outcomes) = 2 => rpc \in {"sleeping", "running"} /\ Len(sleeps) = 2
       /\ (Len(outcomes) >= 3 /\ outcomes[3] = Success) =>
            /\ Len(outcomes) = 3
            /\ Len(sleeps) = 2
            /\ rpc = "returned"
            /\ settled = Success

AllRetryable == \A i \in 1..Len(outcomes) : RetryableAt(i)

\* the number of times the operation has been invoked so far
Invocations == Len(outcomes) + (IF OperationInFlight THEN 1 ELSE 0)

\* what C3 says of an execution, from the first invocation on
AttemptsBounded ==
  /\ Invocations <= cfg.maxAttempts
  /\ (AllRetryable /\ rpc # "start" /\ ~OperationInFlight) =>
       /\ Len(outcomes) < cfg.maxAttempts => rpc = "sleeping"
       /\ Len(outcomes) >= cfg.maxAttempts =>
            /\ rpc = "thrown"
            /\ Len(outcomes) = cfg.maxAttempts
            /\ Len(sleeps) = (IF cfg.maxAttempts = 0 THEN 0 ELSE cfg.maxAttempts - 1)
            /\ settled.cls = "ActionAgentError"
            /\ settled.correlationId = CtxId

\* C3 as stated: in every execution (retries enabled or not) withRetry invokes
\* the operation at most maxAttempts times; when every invocation fails with a
\* retryable error it stops after exactly maxAttempts invocations, without a
\* sleep after the last failure, and rejects with an ActionAgentError carrying
\* the correlationId of the context.  (Stated for maxAttempts >= 1.)
C3_AttemptsBounded_AnyConfig == cfg.maxAttempts >= 1 => AttemptsBounded

\* C3 amended: the same, with retries enabled (config.features.enableRetries).
C3_AttemptsBounded == cfg.enableRetries => AttemptsBounded

\* C3 witness: three retryable failures exhaust maxAttempts = 3
C3_Witness ==
  /\ cfg.enableRetries
  /\ cfg.maxAttempts = 3
  /\ Len(outcomes) = 3
  /\ AllRetryable
  /\ rpc = "thrown"

NonRetryableFirst ==
  /\ Len(outcomes) >= 1
  /\ IsError(outcomes[1])
  /\ ~isRetryableError(outcomes[1])

-----------------------------------------------------------------------------
(* SpecHandling: withErrorHandling over an operation that returns or        *)
(* rejects, with and without the retry option.                              *)

\* what the operation can reject with: the errors above, and ActionAgentErrors
\* built with a status code
HandledErrors ==
  Errors \cup
    { WithStatusCode(ActionAgentError("Original", CtxId, FALSE, None), 400),
      WithStatusCode(ActionAgentError("upstream busy", "other", TRUE, None), 503) }

HandlingInit ==
  /\ cfg \in Configs
  /\ enableRetry \in BOOLEAN
  /\ handled = None
  /\ RetryIdle
  /\ ChunkIdle
  /\ DedupIdle
  /\ BatchIdle
  /\ ExtractIdle
  /\ ParseIdle
  /\ IdentityIdle
  /\ AssignIdle
  /\ VttIdle
  /\ DeadlineIdle
  /\ MetricsIdle

HandlingEnter ==
  /\ withErrorHandlingEnter
  /\ UNCHANGED <<chunkVars, dedupVars, batchVars, extractVars, parseVars, identityVars, assignVars, vttVars, deadlineVars, metricVars>>

HandledOperationReturns ==
  /\ withRetryOnReturn(Success)
  /\ handlingSettles
  /\ UNCHANGED <<enableRetry, chunkVars, dedupVars, batchVars, extractVars, parseVars, identityVars, assignVars, vttVars, deadlineVars, metricVars>>

HandledOperationThrows ==
  /\ \E e \in HandledErrors : withRetryOnThrow(e)
  /\ handlingSettles
  /\ UNCHANGED <<enableRetry, chunkVars, dedupVars, batchVars, extractVars, parseVars, identityVars, assignVars, vttVars, deadlineVars, metricVars>>

HandlingWake ==
  /\ withRetryWake
  /\ handlingSettles
  /\ UNCHANGED <<enableRetry, chunkVars, dedupVars, batchVars, extractVars, parseVars, identityVars, assignVars, vttVars, deadlineVars, metricVars>>

HandlingNext ==
  HandlingEnter \/ HandledOperationReturns \/ HandledOperationThrows \/ HandlingWake

SpecHandling == HandlingInit /\ [][HandlingNext]_vars

-----------------------------------------------------------------------------
(* Claims about withErrorHandling, checked under SpecHandling *)

\* withErrorHandling has rejected
HandlingRejected == rpc = "thrown" /\ handled # None

\* what the last invocation of the operation rejected with
LastFailure == outcomes[Len(outcomes)]

\* withRetry ran its loop: the option is on and retries are enabled
RetryLoopRan == enableRetry /\ cfg.enableRetries

\* C24: every rejection of withErrorHandling is an ActionAgentError: a
\* failure of the operation that is not already an ActionAgentError is
\* wrapped in one that carries the correlationId of the context passed in,
\* both with and without the retry option and whether or not retries are
\* enabled in the configuration.
C24_RejectionsAreAgentErrors ==
  /\ rpc = "thrown" => handled # None
  /\ HandlingRejected =>
       /\ handled.cls = "ActionAgentError"
       /\ (outcomes # <<>> /\ LastFailure.cls # "ActionAgentError") =>
            /\ handled.correlationId = CtxId
            /\ handled.msg = LastFailure.msg

C24_Witness ==
  /\ HandlingRejected
  /\ RetryLoopRan
  /\ Len(outcomes) = 2
  /\ LastFailure.cls = "NonError"
  /\ handled.cls = "ActionAgentError"
  /\ handled.correlationId = CtxId

-----------------------------------------------------------------------------
(* parseVttToText (Graph service) *)

\* how many lines the caption text has
MaxLines == 2

RECURSIVE splitLinesFrom(_, _, _)
\* vttContent.split("\n")
splitLinesFrom(str, cur, acc) ==
  IF str = <<>> THEN Append(acc, cur)
  ELSE IF Head(str) = "\n" THEN splitLinesFrom(Tail(str), <<>>, Append(acc, cur))
  ELSE splitLinesFrom(Tail(str), Append(cur, Head(str)), acc)

splitLines(str) == splitLinesFrom(str, <<>>, <<>>)

\* String.prototype.startsWith
startsWith(str, prefix) ==
  Len(str) >= Len(prefix) /\ SubSeq(str, 1, Len(prefix)) = prefix

\* String.prototype.endsWith
endsWith(str, suffix) ==
  Len(str) >= Len(suffix) /\ SubSeq(str, Len(str) - Len(suffix) + 1, Len(str)) = suffix

\* String.prototype.includes
includes(str, sub) ==
  \E p \in 1..(Len(str) - Len(sub) + 1) : SubSeq(str, p, p + Len(sub) - 1) = sub

\* /^\d+$/.test(str)
isCueIdentifier(str) == str # <<>> /\ \A p \in 1..Len(str) : str[p] \in Digits

VoiceOpen == <<"<", "v", " ">>

VoiceClose == <<"<", "/", "v", ">">>

TimingArrow == <<" ", "-", "-", ">", " ">>

\* the index of the first ">" of str after index p, 0 if there is none
firstClose(str, p) ==
  LET closes == {c \in (p + 1)..Len(str) : str[c] = ">"}
  IN  IF closes = {} THEN 0 ELSE CHOOSE c \in closes : \A d \in closes : c <= d

\* /<v ([^>]+)>(.+?)(?:<\/v>)?$/ matches with "<v " at index p: a speaker of
\* at least one character up to the first ">", then at least one character
matchesAt(str, p) ==
  /\ p + 2 <= Len(str)
  /\ SubSeq(str, p, p + 2) = VoiceOpen
  /\ firstClose(str, p + 2) > p + 3
  /\ firstClose(str, p + 2) < Len(str)

\* .replace(/<\/v>$/, "")
stripVoiceClose(str) ==
  IF endsWith(str, VoiceClose) THEN SubSeq(str, 1, Len(str) - Len(VoiceClose)) ELSE str

\* trimmed.match(/<v ([^>]+)>(.+?)(?:<\/v>)?$/): the leftmost match; group 2
\* is lazy, so a final </v> is left to the optional group when something
\* precedes it
speakerMatch(str) ==
  LET starts == {p \in 1..Len(str) : matchesAt(str, p)}
  IN  IF starts = {} THEN [matched |-> FALSE, speaker |-> <<>>, payload |-> <<>>]
      ELSE LET p == CHOOSE s \in starts : \A t \in starts : s <= t
               c == firstClose(str, p + 2)
               rest == SubSeq(str, c + 1, Len(str))
               group2 == IF Len(rest) > Len(VoiceClose) /\ endsWith(rest, VoiceClose)
                         THEN SubSeq(rest, 1, Len(rest) - Len(VoiceClose))
                         ELSE rest
           IN  [matched |-> TRUE, speaker |-> SubSeq(str, p + 3, c - 1),
                payload |-> stripVoiceClose(group2)]

\* the lines that are skipped: empty, header, note, timing, cue identifier
skipsLine(trimmed) ==
  \/ trimmed = <<>>
  \/ trimmed = <<"W", "E", "B", "V", "T", "T">>
  \/ startsWith(trimmed, <<"N", "O", "T", "E">>)
  \/ includes(trimmed, TimingArrow)
  \/ isCueIdentifier(trimmed)

\* one iteration of `for (const line of lines)`; st = [textLines, currentSpeaker]
lineStep(st, ln) ==
  LET trimmed == trim(ln)
      sm == speakerMatch(trimmed)
  IN  IF skipsLine(trimmed) THEN st
      ELSE IF sm.matched
      THEN [textLines |->
              (IF sm.speaker # st.currentSpeaker
               THEN Append(st.textLines, <<"\n">> \o sm.speaker \o <<":">>)
               ELSE st.textLines) \o <<sm.payload>>,
            currentSpeaker |-> sm.speaker]
      ELSE [st EXCEPT !.textLines = Append(st.textLines, trimmed)]

RECURSIVE lineLoop(_, _)
lineLoop(st, rest) ==
  IF rest = <<>> THEN st ELSE lineLoop(lineStep(st, Head(rest)), Tail(rest))

RECURSIVE joinWith(_, _)
\* Array.prototype.join
joinWith(parts, sep) ==
  IF parts = <<>> THEN <<>>
  ELSE IF Len(parts) = 1 THEN parts[1]
  ELSE parts[1] \o sep \o joinWith(Tail(parts), sep)

\* parseVttToText
parseVttToText(str) ==
  IF str = <<>> THEN <<>>
  ELSE LET st == lineLoop([textLines |-> <<>>, currentSpeaker |-> <<>>], splitLines(str))
       IN  trim(replaceRuns(joinWith(st.textLines, <<" ">>), {" ", "\n", "\t", "\r"}, FALSE))

\* the first call
parseVtt ==
  /\ vpc = "start"
  /\ vttText' = parseVttToText(vttContent)
  /\ vpc' = "once"
  /\ UNCHANGED <<vttContent, vttAgain>>

\* the result is normalized again
parseVttAgain ==
  /\ vpc = "once"
  /\ vttAgain' = parseVttToText(vttText)
  /\ vpc' = "twice"
  /\ UNCHANGED <<vttContent, vttText>>

-----------------------------------------------------------------------------
(* SpecVtt: caption texts of up to MaxLines lines *)

LineHeader == <<"W", "E", "B", "V", "T", "T">>

LineCueIndex == <<"1", "2">>

LineTiming == <<"0", "0", ":", "0", "1", " ", "-", "-", ">", " ", "0", "0", ":", "0", "2">>

LineSam == <<"<", "v", " ", "S", "a", "m", ">", "h", "i", "<", "/", "v", ">">>

LineSamOpen == <<"<", "v", " ", "S", "a", "m", ">", "y", "o">>

LineJo == <<"<", "v", " ", "J", "o", ">", "o", "k", "<", "/", "v", ">">>

LineSpeakerNote == <<"<", "v", " ", "N", "O", "T", "E", ">", "h", "i">>

LineArrowTail == <<"a", " ", "-", "-", ">">>

LinePlain == <<"b">>

LineNote == <<"N", "O", "T", "E", " ", "x">>

LineNested == <<"<", "v", " ", "A", ">", "<", "v", " ", "B", ">", "c">>

LineSpaced == <<" ", "h", "i", " ", " ", "t", "h", "e", "r", "e", " ">>

CaptionLines ==
  {<<>>, LineHeader, LineCueIndex, LineTiming, LineSam,
   LineSamOpen, LineJo, LineSpeakerNote, LineArrowTail,
   LinePlain, LineNote, LineNested, LineSpaced}

RECURSIVE CaptionTexts(_)
\* the texts of n lines
CaptionTexts(n) ==
  IF n = 1 THEN CaptionLines
  ELSE {t \o <<"\n">> \o ln : t \in CaptionTexts(n - 1), ln \in CaptionLines}

VttInit ==
  /\ vttContent \in UNION {CaptionTexts(n) : n \in 1..MaxLines}
  /\ vttText = <<>>
  /\ vttAgain = <<>>
  /\ vpc = "start"
  /\ cfg = DefaultConfig
  /\ RetryIdle
  /\ ChunkIdle
  /\ DedupIdle
  /\ BatchIdle
  /\ ExtractIdle
  /\ ParseIdle
  /\ IdentityIdle
  /\ AssignIdle
  /\ HandlingIdle
  /\ DeadlineIdle
  /\ MetricsIdle

ParseVtt ==
  /\ parseVtt
  /\ UNCHANGED <<retryVars, chunkVars, dedupVars, batchVars, extractVars, parseVars, identityVars, assignVars, handlingVars, deadlineVars, metricVars>>

ParseVttAgain ==
  /\ parseVttAgain
  /\ UNCHANGED <<retryVars, chunkVars, dedupVars, batchVars, extractVars, parseVars, identityVars, assignVars, handlingVars, deadlineVars, metricVars>>

VttNext == ParseVtt \/ ParseVttAgain

SpecVtt == VttInit /\ [][VttNext]_vars

\* C26: caption normalization is idempotent: for every caption-markup input
\* x, parseVttToText(parseVttToText(x)) equals parseVttToText(x); the inputs
\* include those whose speaker labels or text lines themselves look like a
\* header, note, cue-index or timing line.
C26_NormalizationIdempotent ==
  vpc = "twice" => vttAgain = vttText

\* the inputs without a speaker label NOTE, a trailing arrow or a nested tag
\* are fixed points
C26_PlainCaptionsAreFixedPoints ==
  (/\ vpc = "twice"
   /\ ~includes(vttContent, <<"<", "v", " ", "N", "O", "T", "E", ">">>)
   /\ ~includes(vttContent, LineArrowTail)
   /\ ~includes(vttContent, LineNested))
    => vttAgain = vttText

-----------------------------------------------------------------------------
(* parseDeadline and the TargetDate operation of buildPatchDocument (DevOps  *)
(* service).  A Date is its local calendar fields: year, month, day, day of *)
(* the week (0 = Sunday) and the milliseconds since local midnight.         *)

MS_PER_DAY == 24 * 60 * 60 * 1000

isLeapYear(y) == (y % 4 = 0 /\ y % 100 # 0) \/ y % 400 = 0

daysInMonth(y, mo) ==
  IF mo = 2 THEN (IF isLeapYear(y) THEN 29 ELSE 28)
  ELSE IF mo \in {4, 6, 9, 11} THEN 30 ELSE 31

\* the day after d
nextDay(d) ==
  LET dow == (d.dow + 1) % 7
  IN  IF d.day < daysInMonth(d.year, d.month)
      THEN [d EXCEPT !.day = d.day + 1, !.dow = dow]
      ELSE IF d.month < 12
      THEN [d EXCEPT !.month = d.month + 1, !.day = 1, !.dow = dow]
      ELSE [d EXCEPT !.year = d.year + 1, !.month = 1, !.day = 1, !.dow = dow]

\* the day before d
previousDay(d) ==
  LET dow == (d.dow + 6) % 7
  IN  IF d.day > 1
      THEN [d EXCEPT !.day = d.day - 1, !.dow = dow]
      ELSE IF d.month > 1
      THEN [d EXCEPT !.month = d.month - 1, !.day = daysInMonth(d.year, d.month - 1), !.dow = dow]
      ELSE [d EXCEPT !.year = d.year - 1, !.month = 12, !.day = 31, !.dow = dow]

RECURSIVE addDays(_, _)
\* date.setDate(date.getDate() + k), k >= 0
addDays(d, k) == IF k = 0 THEN d ELSE addDays(nextDay(d), k - 1)

\* date.setHours(h, mi, s, ms)
setHours(d, h, mi, s, ms) == [d EXCEPT !.ms = ((h * 60 + mi) * 60 + s) * 1000 + ms]

\* the calendar fields of the instant `delta` milliseconds after d, for a
\* delta of less than a day
shiftMs(d, delta) ==
  LET t == d.ms + delta
  IN  IF t < 0 THEN [previousDay(d) EXCEPT !.ms = t + MS_PER_DAY]
      ELSE IF t >= MS_PER_DAY THEN [nextDay(d) EXCEPT !.ms = t - MS_PER_DAY]
      ELSE [d EXCEPT !.ms = t]

\* Date.prototype.toISOString: the UTC fields of a local date
toISOString(d, tz) == shiftMs(d, 0 - tz * 60000)

\* the local fields of the instant an ISO string denotes
fromISOString(iso, tz) == shiftMs(iso, tz * 60000)

DueTomorrow == <<"t", "o", "m", "o", "r", "r", "o", "w">>

DueTomorrowCapital == <<"T", "o", "m", "o", "r", "r", "o", "w">>

DueByTomorrowNoon == <<"b", "y", " ", "T", "O", "M", "O", "R", "R", "O", "W", " ", "n", "o", "o", "n">>

DueEodTomorrow == <<"E", "O", "D", " ", "t", "o", "m", "o", "r", "r", "o", "w">>

DueTodayOrTomorrow == <<"t", "o", "d", "a", "y", " ", "o", "r", " ", "t", "o", "m", "o", "r", "r", "o", "w">>

DueEndOfDayTomorrow == <<"e", "n", "d", " ", "o", "f", " ", "d", "a", "y", " ", "t", "o", "m", "o", "r", "r", "o", "w">>

DueNextWeek == <<"n", "e", "x", "t", " ", "w", "e", "e", "k">>

DueEndOfSprint == <<"e", "n", "d", " ", "o", "f", " ", "s", "p", "r", "i", "n", "t">>

DueEod == <<"e", "o", "d">>

DueIsoDate == <<"2", "0", "2", "6", "-", "1", "2", "-", "2", "4">>

DueSoon == <<"s", "o", "o", "n">>

\* new Date(deadline) for the texts explored: the ISO date is midnight UTC
\* of that day, every other text is an Invalid Date
dateConstructor(str, tz) ==
  IF str = DueIsoDate
  THEN fromISOString([year |-> 2026, month |-> 12, day |-> 24, dow |-> 4, ms |-> 0], tz)
  ELSE None

\* (5 - endOfSprint.getDay() + 7) % 7 || 7
daysUntilFriday(d) ==
  IF (5 - d.dow + 7) % 7 = 0 THEN 7 ELSE (5 - d.dow + 7) % 7

\* mutant: "tomorrow" is end of the next day
parseDeadline_TomorrowEndOfDay(str, today, tz) ==
  LET lower == toLowerCase(str)
  IN  IF includes(lower, <<"e", "o", "d">>)
           \/ includes(lower, <<"e", "n", "d", " ", "o", "f", " ", "d", "a", "y">>)
           \/ includes(lower, <<"t", "o", "d", "a", "y">>)
      THEN setHours(today, 23, 59, 59, 999)
      ELSE IF includes(lower, <<"t", "o", "m", "o", "r", "r", "o", "w">>)
      THEN setHours(addDays(today, 1), 23, 59, 59, 999)
      ELSE None

\* parseDeadline; today is `now`
parseDeadline(str, today, tz) ==
  LET lower == toLowerCase(str)
  IN  IF includes(lower, <<"e", "o", "d">>)
           \/ includes(lower, <<"e", "n", "d", " ", "o", "f", " ", "d", "a", "y">>)
           \/ includes(lower, <<"t", "o", "d", "a", "y">>)
      THEN setHours(today, 23, 59, 59, 999)
      ELSE IF includes(lower, <<"t", "o", "m", "o", "r", "r", "o", "w">>)
      THEN setHours(addDays(today, 1), 17, 0, 0, 0)
      ELSE IF includes(lower, <<"n", "e", "x", "t", " ", "w", "e", "e", "k">>)
      THEN addDays(today, 7)
      ELSE IF includes(lower, <<"e", "n", "d", " ", "o", "f", " ", "s", "p", "r", "i", "n", "t">>)
                \/ includes(lower, <<"s", "p", "r", "i", "n", "t", " ", "e", "n", "d">>)
      THEN addDays(today, daysUntilFriday(today))
      ELSE dateConstructor(str, tz)

\* buildPatchDocument: if (task.deadline) { parsedDate = parseDeadline(...);
\* if (parsedDate) push TargetDate = parsedDate.toISOString() }
buildTargetDate ==
  /\ tpc = "start"
  /\ tpc' = "built"
  /\ IF deadline = <<>>
     THEN UNCHANGED <<parsedDate, targetDate>>
     ELSE /\ parsedDate' = parseDeadline(deadline, clock, tzMinutes)
          /\ targetDate' =
               IF parseDeadline(deadline, clock, tzMinutes) = None THEN None
               ELSE [path |-> "/fields/Microsoft.VSTS.Scheduling.TargetDate",
                     value |-> toISOString(parseDeadline(deadline, clock, tzMinutes), tzMinutes)]
  /\ UNCHANGED <<deadline, clock, tzMinutes>>

-----------------------------------------------------------------------------
(* SpecDeadline: one patch document, for the deadline texts, local dates    *)
(* and UTC offsets below.                                                   *)

DeadlineTexts ==
  {<<>>, DueTomorrow, DueTomorrowCapital, DueByTomorrowNoon,
   DueEodTomorrow, DueTodayOrTomorrow, DueEndOfDayTomorrow,
   DueNextWeek, DueEndOfSprint, DueEod,
   DueIsoDate, DueSoon}

\* month ends, a leap day's eve, a year end, a Friday and a Monday
LocalDays ==
  { [year |-> 2026, month |-> 1, day |-> 31, dow |-> 6],
    [year |-> 2026, month |-> 2, day |-> 28, dow |-> 6],
    [year |-> 2024, month |-> 2, day |-> 28, dow |-> 3],
    [year |-> 2026, month |-> 12, day |-> 31, dow |-> 4],
    [year |-> 2026, month |-> 6, day |-> 12, dow |-> 5],
    [year |-> 2026, month |-> 6, day |-> 15, dow |-> 1] }

\* 00:00:00.000, 16:59:59.999, 17:00:00.000, 23:59:59.999
LocalTimes == {0, 61199999, 61200000, 86399999}

LocalDates ==
  {[year |-> d.year, month |-> d.month, day |-> d.day, dow |-> d.dow, ms |-> t] :
     d \in LocalDays, t \in LocalTimes}

\* UTC-8, UTC, UTC+5:30
UtcOffsets == {0 - 480, 0, 330}

DeadlineInit ==
  /\ deadline \in DeadlineTexts
  /\ clock \in LocalDates
  /\ tzMinutes \in UtcOffsets
  /\ parsedDate = None
  /\ targetDate = None
  /\ tpc = "start"
  /\ cfg = DefaultConfig
  /\ RetryIdle
  /\ ChunkIdle
  /\ DedupIdle
  /\ BatchIdle
  /\ ExtractIdle
  /\ ParseIdle
  /\ IdentityIdle
  /\ AssignIdle
  /\ HandlingIdle
  /\ VttIdle
  /\ MetricsIdle

BuildTargetDate ==
  /\ buildTargetDate
  /\ UNCHANGED <<retryVars, chunkVars, dedupVars, batchVars, extractVars, parseVars, identityVars, assignVars, handlingVars, vttVars, metricVars>>

DeadlineNext == BuildTargetDate

SpecDeadline == DeadlineInit /\ [][DeadlineNext]_vars

\* 17:00 local time on the calendar day after the current one
TomorrowAtFive == [nextDay(clock) EXCEPT !.ms = 17 * 60 * 60 * 1000]

MentionsTomorrow ==
  \E p \in 1..Len(deadline) :
    p + 7 <= Len(deadline) /\ toLowerCase(SubSeq(deadline, p, p + 7)) = toLowerCase(DueTomorrow)

\* C27: a deadline text that contains the phrase "tomorrow" (in any letter
\* case, possibly with other words around it) is parsed to 17:00 local time
\* on the calendar day after the current one, and the backend record built
\* from the item carries that date as its target date.
C27_TomorrowIsNextDayAtFive ==
  (tpc = "built" /\ MentionsTomorrow) =>
    /\ parsedDate = TomorrowAtFive
    /\ targetDate # None
    /\ fromISOString(targetDate.value, tzMinutes) = TomorrowAtFive

\* the texts that mention tomorrow and none of "eod", "end of day", "today"
\* do give 17:00 on the next day
C27_TomorrowAloneIsNextDayAtFive ==
  (tpc = "built" /\ deadline \in {DueTomorrow, DueTomorrowCapital, DueByTomorrowNoon}) =>
    /\ parsedDate = TomorrowAtFive
    /\ targetDate # None
    /\ fromISOString(targetDate.value, tzMinutes) = TomorrowAtFive

(***************************************************************************)
(* TelemetryService.trackMetric (telemetry.ts): the in-memory metric store *)
(* and its rotation.  A metric is the record trackMetric builds; its       *)
(* timestamp is the ordinal of the call (new Date() at the call).          *)
(***************************************************************************)
\* private readonly maxMetrics = 1000
maxMetrics == 1000

\* the number of trackMetric calls the model makes
MaxTracked == 1003

\* the names trackSuccess, trackFailure and trackRateLimit hand over
MetricNames == {"rate_limit.hit"}

\* Array.prototype.slice(-n): the last n elements (the whole list when it
\* has no more than n)
sliceLast(list, n) ==
  IF Len(list) <= n THEN list ELSE SubSeq(list, Len(list) - n + 1, Len(list))

\* Array.prototype.slice(0, n): the first n elements
sliceFirst(list, n) ==
  IF Len(list) <= n THEN list ELSE SubSeq(list, 1, n)

\* the Metric object of one call
Metric(name, value, unit, timestamp) ==
  [name |-> name, value |-> value, unit |-> unit, timestamp |-> timestamp]

\* a trackMetric whose rotation keeps the head of the store
trackMetric_KeepsOldest(store, metric, enabled) ==
  IF ~enabled THEN store
  ELSE LET pushed == Append(store, metric)
       IN  IF Len(pushed) > maxMetrics THEN sliceFirst(pushed, maxMetrics)
           ELSE pushed

\* trackMetric: the store after the call
trackMetric(store, metric, enabled) ==
  IF ~enabled THEN store
  ELSE LET pushed == Append(store, metric)
       IN  IF Len(pushed) > maxMetrics THEN sliceLast(pushed, maxMetrics)
           ELSE pushed

MetricsInit ==
  /\ metrics = <<>>
  /\ enableTelemetry \in BOOLEAN
  /\ tracked = <<>>
  /\ cfg = DefaultConfig
  /\ RetryIdle
  /\ ChunkIdle
  /\ DedupIdle
  /\ BatchIdle
  /\ ExtractIdle
  /\ ParseIdle
  /\ IdentityIdle
  /\ AssignIdle
  /\ HandlingIdle
  /\ VttIdle
  /\ DeadlineIdle

\* one call of trackMetric (through trackRateLimit: value 1, unit "count")
TrackMetric ==
  /\ Len(tracked) < MaxTracked
  /\ \E name \in MetricNames :
       LET metric == Metric(name, 1, "count", Len(tracked) + 1)
       IN  /\ metrics' = trackMetric(metrics, metric, enableTelemetry)
           /\ tracked' = Append(tracked, metric)
  /\ UNCHANGED enableTelemetry
  /\ UNCHANGED <<chunkVars, dedupVars, parseVars, batchVars, retryVars,
                 extractVars, identityVars, assignVars, handlingVars,
                 vttVars, deadlineVars>>

MetricsNext == TrackMetric

SpecMetrics == MetricsInit /\ [][MetricsNext]_vars

\* C30: after any sequence of trackMetric calls the store holds at most
\* maxMetrics entries, namely the most recently tracked metrics in tracking
\* order; with telemetry disabled the store stays empty.
C30_StoreHoldsMostRecent ==
  /\ Len(metrics) <= maxMetrics
  /\ enableTelemetry => metrics = sliceLast(tracked, maxMetrics)
  /\ ~enableTelemetry => metrics = <<>>

\* C30 witness: telemetry is on and the store has rotated more than once
C30_Witness ==
  /\ enableTelemetry
  /\ Len(tracked) >= maxMetrics + 2
  /\ Len(metrics) = maxMetrics
  /\ metrics[1].timestamp > 1

=============================================================================
